---------------------------- MODULE Spec2Model ----------------------------
(***************************************************************************)
(* A model of src/bluesky.py: the paginated generators (iter_follows,      *)
(* iter_followers, iter_search_actors), the text matcher, the              *)
(* breadth-first crawl of mode_degreesearch with its Stats aggregator, and *)
(* the review loops of mode_searching and mode_following.                  *)
(*                                                                         *)
(* Strings the program inspects character by character (bios, keyword      *)
(* phrases) are sequences of one-character strings; identifiers and        *)
(* cursors, which the program only compares, are plain strings.  Python's  *)
(* None and a missing dictionary key are the string NoneV.                 *)
(***************************************************************************)
EXTENDS Integers, Sequences, FiniteSets, TLC

\* ------------------------------------------------------------------ bounds
\* Longest item list the modelled server puts in one response.
MaxPageLen == 2
\* Largest max_pages argument a paginated generator is invoked with.
MaxPagesArg == 3
\* Most account records the modelled server returns in one crawl, over all
\* its responses; once they are served it answers with empty pages.
MaxItems == 3
\* Most seed batches a finite follows listing returns.
MaxSeedBatches == 2
\* Most node-observed events, and most other events, given to a Stats object
\* driven on its own.
MaxObserved == 250
\* Longest free text, and most lines of a keyword file, given to the text
\* matcher driven on its own.
MaxTextLen == 3
MaxFileLines == 2
MaxOtherEvents == 2

\* ------------------------------------------------------- program constants
\* Stats batch size (STATS_BATCH_N).
STATS_BATCH_N == 100
\* max_pages passed to iter_follows for the seed source.
SEED_MAX_PAGES == 10000
\* max_pages passed to iter_followers for a seed's neighbor listing.
FOLLOWER_MAX_PAGES == 1

\* ------------------------------------------------------------ Python values
NoneV == "<None>"

\* Python truthiness of an optional string: None and "" are falsy.
Falsy(s) == s = NoneV \/ s = ""

\* a or b, for optional strings.
OrElse(a, b) == IF Falsy(a) THEN b ELSE a

Max(a, b) == IF a >= b THEN a ELSE b

\* ------------------------------------------------------------- text helpers
WhiteSpace == {" ", "\t", "\n"}

\* str.lower(), one character.
LowerChar(c) ==
  CASE c = "A" -> "a"
    [] c = "B" -> "b"
    [] c = "X" -> "x"
    [] OTHER -> c

\* str.lower()
Lower(s) == [i \in 1..Len(s) |-> LowerChar(s[i])]

\* str.strip(): leading and trailing whitespace removed.
RECURSIVE LStrip(_)
LStrip(s) ==
  IF s = <<>> THEN <<>>
  ELSE IF Head(s) \in WhiteSpace THEN LStrip(Tail(s)) ELSE s

RECURSIVE RStrip(_)
RStrip(s) ==
  IF s = <<>> THEN <<>>
  ELSE IF s[Len(s)] \in WhiteSpace THEN RStrip(SubSeq(s, 1, Len(s) - 1)) ELSE s

Strip(s) == RStrip(LStrip(s))

\* str.split() with no argument: the maximal runs of non-whitespace characters.
RECURSIVE SplitFrom(_, _, _)
SplitFrom(s, word, acc) ==
  IF s = <<>> THEN (IF word = <<>> THEN acc ELSE Append(acc, word))
  ELSE IF Head(s) \in WhiteSpace
       THEN SplitFrom(Tail(s), <<>>, IF word = <<>> THEN acc ELSE Append(acc, word))
       ELSE SplitFrom(Tail(s), Append(word, Head(s)), acc)

Split(s) == SplitFrom(s, <<>>, <<>>)

\* " ".join(words)
RECURSIVE JoinSpace(_)
JoinSpace(words) ==
  IF words = <<>> THEN <<>>
  ELSE IF Len(words) = 1 THEN words[1]
  ELSE words[1] \o <<" ">> \o JoinSpace(Tail(words))

\* " ".join(s.lower().split())
Normalize(s) == JoinSpace(Split(Lower(s)))

\* kw in t, for strings.
Contains(t, kw) ==
  \E i \in 0..(Len(t) - Len(kw)) : SubSeq(t, i + 1, i + Len(kw)) = kw

\* read_keywords without line.lower().
RECURSIVE read_keywords_NoLower(_)
read_keywords_NoLower(lines) ==
  IF lines = <<>> THEN <<>>
  ELSE LET kw == JoinSpace(Split(Strip(Head(lines))))
       IN  IF kw # <<>> THEN <<kw>> \o read_keywords_NoLower(Tail(lines))
           ELSE read_keywords_NoLower(Tail(lines))

\* read_keywords: each line stripped, lower-cased, whitespace-collapsed; empty lines dropped.
RECURSIVE read_keywords(_)
read_keywords(lines) ==
  IF lines = <<>> THEN <<>>
  ELSE LET kw == JoinSpace(Split(Lower(Strip(Head(lines)))))
       IN  IF kw # <<>> THEN <<kw>> \o read_keywords(Tail(lines))
           ELSE read_keywords(Tail(lines))

\* matches_any_keyword without text.lower().
matches_any_keyword_CaseSensitive(text, keywords) ==
  IF text = <<>> \/ keywords = <<>> THEN FALSE
  ELSE LET t == JoinSpace(Split(text))
       IN  \E i \in 1..Len(keywords) : Contains(t, keywords[i])

\* matches_any_keyword
matches_any_keyword(text, keywords) ==
  IF text = <<>> \/ keywords = <<>> THEN FALSE
  ELSE LET t == Normalize(text)
       IN  \E i \in 1..Len(keywords) : Contains(t, keywords[i])

\* combine_bio_desc: bio (else profile.description) and description, each
\* stripped, the non-empty ones joined by one space.
combine_bio_desc(obj) ==
  LET desc == Strip(obj.description)
      bio  == Strip(IF obj.bio # <<>> THEN obj.bio ELSE obj.profile_description)
  IN  Strip(JoinSpace(SelectSeq(<<bio, desc>>, LAMBDA s : s # <<>>)))

\* ------------------------------------------------- paginated generators
(***************************************************************************)
(* A generator object is a record: its arguments (kind, batch_size,        *)
(* max_pages and subject: the actor or keyword of the query), its position pc ("start": not yet run, "yielded": suspended *)
(* at the yield, "done": returned, "failed": run_curl raised), its locals  *)
(* (cursor, pages, and out_cursor = out.get("cursor") of the response      *)
(* whose batch it is suspended on), the batch it last yielded, and what    *)
(* the outside observes of it: the number of requests issued, of batches   *)
(* yielded, and the cursor and limit parameters of its latest request      *)
(* (sent = NoneV when the request carried no cursor parameter).            *)
(***************************************************************************)
NewGen(kind, subject, batch_size, max_pages) ==
  [kind |-> kind, subject |-> subject, batch_size |-> batch_size, max_pages |-> max_pages,
   pc |-> "start", cursor |-> NoneV, pages |-> 0, out_cursor |-> NoneV,
   batch |-> <<>>, requests |-> 0, yields |-> 0, sent |-> NoneV, limit |-> 0]

\* A server response: ok = FALSE when run_curl raises; has_items = FALSE when
\* the list key is missing (or null); cursor = NoneV when it is absent.
\* batch = out.get(<list key>, []) or []
BatchOf(resp) == IF resp.has_items THEN resp.items ELSE <<>>

\* The loop test off by one: while pages <= max_pages.
LoopConditionOffByOne(g) == g.pages <= g.max_pages

\* while pages < max_pages
LoopCondition(g) == g.pages < g.max_pages

\* if cursor: q += "&cursor=..."
CursorParam(g) == IF Falsy(g.cursor) THEN NoneV ELSE g.cursor

\* The pass without its empty-batch break: an empty batch is yielded too.
PageRequestNoEmptyBreak(g, resp) ==
  IF ~LoopCondition(g) THEN [g EXCEPT !.pc = "done", !.batch = <<>>]
  ELSE LET sentg == [g EXCEPT !.requests = @ + 1, !.sent = CursorParam(g),
                              !.limit = Max(1, g.batch_size), !.batch = <<>>]
       IN  IF ~resp.ok THEN [sentg EXCEPT !.pc = "failed"]
           ELSE [sentg EXCEPT !.pc = "yielded", !.batch = BatchOf(resp),
                              !.yields = @ + 1, !.out_cursor = resp.cursor]

\* One pass from the loop test to the yield: the loop test, the request,
\* the empty-batch break and the yield.
PageRequest(g, resp) ==
  IF ~LoopCondition(g) THEN [g EXCEPT !.pc = "done", !.batch = <<>>]
  ELSE LET sentg == [g EXCEPT !.requests = @ + 1, !.sent = CursorParam(g),
                              !.limit = Max(1, g.batch_size), !.batch = <<>>]
       IN  IF ~resp.ok THEN [sentg EXCEPT !.pc = "failed"]
           ELSE IF BatchOf(resp) = <<>> THEN [sentg EXCEPT !.pc = "done"]
           ELSE [sentg EXCEPT !.pc = "yielded", !.batch = BatchOf(resp),
                              !.yields = @ + 1, !.out_cursor = resp.cursor]

\* iter_follows after its yield, without the stall guard: a break only on a
\* falsy cursor.
iter_follows_resume_NoStallGuard(g) ==
  LET cursor_new == g.out_cursor
  IN  IF Falsy(cursor_new)
      THEN [g EXCEPT !.pages = @ + 1, !.pc = "done", !.batch = <<>>]
      ELSE [g EXCEPT !.pages = @ + 1, !.cursor = cursor_new, !.pc = "start"]

\* iter_follows, after its yield: cursor_new, pages += 1, the stall guard.
iter_follows_resume(g) ==
  LET cursor_new == g.out_cursor
  IN  IF Falsy(cursor_new) \/ cursor_new = g.cursor
      THEN [g EXCEPT !.pages = @ + 1, !.pc = "done", !.batch = <<>>]
      ELSE [g EXCEPT !.pages = @ + 1, !.cursor = cursor_new, !.pc = "start"]

\* iter_followers after its yield, without pages += 1.
iter_followers_resume_NoPageCount(g) ==
  LET cursor_new == g.out_cursor
  IN  IF Falsy(cursor_new) \/ cursor_new = g.cursor
      THEN [g EXCEPT !.pc = "done", !.batch = <<>>]
      ELSE [g EXCEPT !.cursor = cursor_new, !.pc = "start"]

\* iter_followers, after its yield: the same steps as iter_follows.
iter_followers_resume(g) ==
  LET cursor_new == g.out_cursor
  IN  IF Falsy(cursor_new) \/ cursor_new = g.cursor
      THEN [g EXCEPT !.pages = @ + 1, !.pc = "done", !.batch = <<>>]
      ELSE [g EXCEPT !.pages = @ + 1, !.cursor = cursor_new, !.pc = "start"]

\* iter_search_actors, after its yield: cursor = out.get("cursor"), pages += 1,
\* and a break only on a falsy cursor.
iter_search_actors_resume(g) ==
  LET cursor_new == g.out_cursor
  IN  IF Falsy(cursor_new)
      THEN [g EXCEPT !.pages = @ + 1, !.cursor = cursor_new, !.pc = "done", !.batch = <<>>]
      ELSE [g EXCEPT !.pages = @ + 1, !.cursor = cursor_new, !.pc = "start"]

ResumeAfterYield(g) ==
  CASE g.kind = "follows"   -> iter_follows_resume(g)
    [] g.kind = "followers" -> iter_followers_resume(g)
    [] g.kind = "search"    -> iter_search_actors_resume(g)

\* next(generator): a finished generator stays finished (StopIteration); a
\* suspended one resumes after its yield; then one pass to the next yield.
GenNext(g, resp) ==
  IF g.pc \in {"done", "failed"} THEN [g EXCEPT !.pc = "done", !.batch = <<>>]
  ELSE LET g1 == IF g.pc = "yielded" THEN ResumeAfterYield(g) ELSE g
       IN  IF g1.pc = "done" THEN g1 ELSE PageRequest(g1, resp)

\* Whether next(g) issues a request at all.
WillRequest(g) ==
  /\ g.pc \in {"start", "yielded"}
  /\ LET g1 == IF g.pc = "yielded" THEN ResumeAfterYield(g) ELSE g
     IN  g1.pc # "done" /\ LoopCondition(g1)

\* ------------------------------------------------------ the modelled world
\* The viewer's own identity (did, handle of the session).
ViewerDid == "did:me"
ViewerHandle == "me.h"

\* The lines of the keywords file, and the phrases read_keywords makes of them.
KeywordLines == << <<" ", "A", " ", " ", "b", " ">>, <<" ", "\t">> >>
Keywords == read_keywords(KeywordLines)

\* Bios: one that holds the phrase "a b" after normalisation, inside a longer
\* word, and one that does not.
BioHit == <<"x", "A", " ", "\t", "B">>
BioMiss == <<"a", "b">>

\* An account record as the listing endpoints return it.
Account(did, handle, description, bio, profile_description, following) ==
  [did |-> did, handle |-> handle, description |-> description, bio |-> bio,
   profile_description |-> profile_description, following |-> following]

nA == Account("did:a", "a.h", BioHit, <<>>, <<>>, NoneV)
nB == Account("did:b", "b.h", <<>>, BioHit, <<>>, NoneV)
nMiss == Account("did:m", "m.h", BioMiss, <<" ">>, BioHit, NoneV)
nNoDid == Account(NoneV, "h.only", <<>>, <<>>, BioHit, NoneV)
nNoKey == Account(NoneV, NoneV, BioHit, <<>>, <<>>, NoneV)
nSelf == Account(ViewerDid, ViewerHandle, BioHit, <<>>, <<>>, NoneV)
nFollowed == Account("did:f", "f.h", BioHit, <<>>, <<>>, "at://did:me/app.bsky.graph.follow/1")

\* The accounts the viewer's follows listing returns, and those a seed's
\* followers listing returns.
SeedAccounts == {nA, nMiss, nNoKey}
Accounts == {nA, nB, nMiss, nNoDid, nNoKey, nSelf, nFollowed}

\* The item lists a response can hold.
Pages(S, n) == UNION {[1..k -> S] : k \in 0..n}

Failure == [ok |-> FALSE, has_items |-> FALSE, items |-> <<>>, cursor |-> NoneV]

\* Every response over the accounts S and the cursors C: a page of up to n
\* items, a response without the list key, or a failed request.
Responses(S, n, C) ==
  {[ok |-> TRUE, has_items |-> TRUE, items |-> p, cursor |-> c] : p \in Pages(S, n), c \in C}
    \cup {[ok |-> TRUE, has_items |-> FALSE, items |-> <<>>, cursor |-> NoneV]}
    \cup {Failure}

\* A response without list and cursor.
NoResponse == [ok |-> TRUE, has_items |-> FALSE, items |-> <<>>, cursor |-> NoneV]

\* What a server that has run out of data answers.
Exhausted == {[ok |-> TRUE, has_items |-> TRUE, items |-> <<>>, cursor |-> NoneV], Failure}

\* ------------------------------------------------------------------- state
VARIABLES
  gen,                    \* a paginated generator driven on its own (PagSpec)
  last_resp,              \* the response to gen's latest next() call
  args,                   \* dry_run, degreelimit, limit, keywords
  pc,                     \* position in mode_degreesearch
  stats,                  \* the Stats object: n, block, cum; stderr: the snapshots written
  seed_source, seed_buffer, queue,
  visited_seeds, seen_candidates, session_followed,
  added, skipped, source_exhausted, current_seed_batch_idx,
  depth,                  \* depth of the frontier entry being expanded
  follower_pages,         \* the iter_followers generator of that entry
  followers,              \* what is left of the page being reviewed
  reported,               \* "Seed (depth d)" lines printed: <<key, depth>>
  fetches,                \* neighbor-listing requests issued: actor, key, depth, account
  prompts,                \* keys of the candidates shown at the decision prompt
  creates,                \* create_follow_record calls: subject and outcome
  served,                 \* account records the server has returned so far
  searching,              \* the locals of mode_searching
  following,              \* the locals of mode_following
  deletes,                \* delete_follow_record calls: uri and outcome
  server,                 \* what the remote listings hold: see BudgetServer
  matcher                 \* a Text Matcher call on its own: file, text, result

pagVars == <<gen, last_resp>>

crawlVars == <<args, pc, stats, seed_source, seed_buffer, queue, visited_seeds,
               seen_candidates, session_followed, added, skipped, source_exhausted,
               current_seed_batch_idx, depth, follower_pages, followers,
               reported, fetches, prompts, creates, served,
               searching, following, deletes, server, matcher>>

\* The variables only mode_degreesearch uses.
degreeVars == <<pc, stats, seed_source, seed_buffer, queue, visited_seeds,
                seen_candidates, session_followed, added, skipped, source_exhausted,
                current_seed_batch_idx, depth, follower_pages, followers,
                reported, fetches>>

vars == <<gen, last_resp, args, pc, stats, seed_source, seed_buffer, queue,
          visited_seeds, seen_candidates, session_followed, added, skipped,
          source_exhausted, current_seed_batch_idx, depth, follower_pages,
          followers, reported, fetches, prompts, creates, served,
          searching, following, deletes, server, matcher>>

\* ------------------------------------------------------------------- Stats
CounterNames ==
  {"followers_iterated", "seeds_seen", "seeds_matched", "no_key_skip", "self_skip",
   "already_following_skip", "dedup_skip", "keyword_miss", "candidates_considered",
   "prompted", "followed_added", "user_declined", "no_did_skip", "api_error",
   "enqueued_new_seeds"}

\* Counter(): every name counts 0.
EmptyCounter == [k \in CounterNames |-> 0]

\* Stats.__init__
NewStats == [n |-> STATS_BATCH_N, cum |-> EmptyCounter, block |-> EmptyCounter,
             stderr |-> <<>>]

\* Stats._b without the cumulative counter.
StatsB_BlockOnly(st, k) == [st EXCEPT !.block[k] = @ + 1]

\* Stats._b
StatsB(st, k) == [st EXCEPT !.block[k] = @ + 1, !.cum[k] = @ + 1]

\* Stats.report_block: the block and the cumulative counters go to stderr.
report_block(st) ==
  [st EXCEPT !.stderr = Append(@, [block |-> st.block, cum |-> st.cum])]

\* Stats.account_seen with the threshold test "> self.n".
account_seen_Late(st) ==
  LET st1 == StatsB(st, "followers_iterated")
  IN  IF st1.block["followers_iterated"] > st1.n
      THEN [report_block(st1) EXCEPT !.block = EmptyCounter]
      ELSE st1

\* Stats.account_seen
account_seen(st) ==
  LET st1 == StatsB(st, "followers_iterated")
  IN  IF st1.block["followers_iterated"] >= st1.n
      THEN [report_block(st1) EXCEPT !.block = EmptyCounter]
      ELSE st1

\* Stats.candidate without the prompted counter.
candidate_NoPrompted(st) == StatsB(st, "candidates_considered")

\* Stats.candidate
candidate(st) == StatsB(StatsB(st, "candidates_considered"), "prompted")

\* The methods of Stats that record an event, and the counter names each
\* passes to _b.
StatsMethods ==
  {"account_seen", "seed_seen", "seed_matched", "no_key_skip", "self_skip",
   "already_following_skip", "dedup_skip", "keyword_miss", "candidate", "followed",
   "declined", "no_did_skip", "api_error", "enqueued"}

MethodCounters(m) ==
  CASE m = "account_seen" -> {"followers_iterated"}
    [] m = "seed_seen"    -> {"seeds_seen"}
    [] m = "seed_matched" -> {"seeds_matched"}
    [] m = "candidate"    -> {"candidates_considered", "prompted"}
    [] m = "followed"     -> {"followed_added"}
    [] m = "declined"     -> {"user_declined"}
    [] m = "enqueued"     -> {"enqueued_new_seeds"}
    [] OTHER              -> {m}

\* The call stats.m() with the block reset before the snapshot is written.
stats_call_ResetFirst(st, m) ==
  IF m = "account_seen"
  THEN LET st1 == StatsB(st, "followers_iterated")
       IN  IF st1.block["followers_iterated"] >= st1.n
           THEN report_block([st1 EXCEPT !.block = EmptyCounter])
           ELSE st1
  ELSE IF m = "candidate" THEN candidate(st)
  ELSE StatsB(st, CHOOSE k \in MethodCounters(m) : TRUE)

\* The call stats.m()
stats_call(st, m) ==
  IF m = "account_seen" THEN account_seen(st)
  ELSE IF m = "candidate" THEN candidate(st)
  ELSE StatsB(st, CHOOSE k \in MethodCounters(m) : TRUE)

\* ------------------------------------------------ paginated generator alone
\* The values max_pages and batch_size are invoked with, and the cursors the
\* server may return (absent, empty, two tokens).
PagCursors == {NoneV, "", "c1", "c2"}
PagResponses == Responses({nA}, MaxPageLen, PagCursors)

\* The remote side of a run.  A "budget" server answers any request with any
\* page until it has served MaxItems records, and may fail; a "scripted" one
\* holds one seed batch and one followers page and never fails; a "finite"
\* one never fails, ends the follows listing after MaxSeedBatches batches
\* and answers every followers request with any page over LiveAccounts.
BudgetServer == [kind |-> "budget", seeds |-> <<>>, page |-> <<>>]
FiniteServer == [kind |-> "finite", seeds |-> <<>>, page |-> <<>>]
ScriptedServer(seeds, page) == [kind |-> "scripted", seeds |-> seeds, page |-> page]
LiveAccounts == {nA, nB}

\* No Text Matcher call on its own is under way.
NoMatcher == [pc |-> "idle", lines |-> <<>>, text |-> <<>>, keywords |-> <<>>,
              result |-> FALSE, calls |-> 0]

\* The locals of mode_searching and mode_following while the mode is not run.
NoSearching ==
  [pc |-> "idle", kw |-> 0, search_pages |-> NewGen("search", NoneV, 1, 1),
   page |-> <<>>, seen |-> {}, session_followed |-> {}, added |-> 0, skipped |-> 0]

NoFollowing ==
  [pc |-> "idle", follows_pages |-> NewGen("follows", NoneV, 1, 1), follows |-> <<>>,
   kept |-> 0, reviewed_no_match |-> 0, empties |-> 0, batches |-> 0,
   would_unfollow |-> 0]

\* The state of mode_degreesearch for the given arguments, at position p:
\* "start" before it runs, "idle" when another mode is run instead.
CrawlState(a, p) ==
  /\ args = a
  /\ pc = p
  /\ stats = NewStats
  /\ seed_source = NewGen("follows", ViewerHandle, Max(1, a.limit), SEED_MAX_PAGES)
  /\ seed_buffer = <<>>
  /\ queue = <<>>
  /\ visited_seeds = {}
  /\ seen_candidates = {}
  /\ session_followed = {}
  /\ added = 0
  /\ skipped = 0
  /\ source_exhausted = FALSE
  /\ current_seed_batch_idx = 0
  /\ depth = 0
  /\ follower_pages = NewGen("followers", NoneV, Max(1, a.limit), FOLLOWER_MAX_PAGES)
  /\ followers = <<>>
  /\ reported = <<>>
  /\ fetches = <<>>
  /\ prompts = <<>>
  /\ creates = <<>>
  /\ served = 0

\* The state before mode_degreesearch runs against server srv.
CrawlInitOn(a, srv) ==
  /\ CrawlState(a, "start")
  /\ searching = NoSearching
  /\ following = NoFollowing
  /\ deletes = <<>>
  /\ server = srv
  /\ matcher = NoMatcher

\* The state before mode_degreesearch runs.
CrawlInit(a) == CrawlInitOn(a, BudgetServer)

DefaultArgs ==
  [dry_run |-> FALSE, nodesc |-> FALSE, degreelimit |-> 1, limit |-> 1,
   keywords |-> Keywords]

PagInit ==
  /\ gen \in {NewGen(kind, "subject", b, mp) :
                kind \in {"follows", "followers", "search"},
                b \in {0, 1}, mp \in 0..MaxPagesArg}
  /\ last_resp = NoResponse
  /\ CrawlInit(DefaultArgs)

\* The consumer's next(gen): a for loop calls it until the generator ends.
PagNextCall ==
  /\ gen.pc \in {"start", "yielded"}
  /\ \E resp \in PagResponses :
       /\ gen' = GenNext(gen, resp)
       /\ last_resp' = IF WillRequest(gen) THEN resp ELSE last_resp
  /\ UNCHANGED crawlVars

PagNext == PagNextCall

PagSpec == PagInit /\ [][PagNext]_vars

\* ------------------------------------------------------ mode_degreesearch
\* max_depth taken from the wrong argument: max(1, int(args.limit)).
max_depth_FromLimit == Max(1, args.limit)

\* max_depth = max(1, int(args.degreelimit))
max_depth == Max(1, args.degreelimit)

\* batch_size = max(1, args.limit)
batch_size == Max(1, args.limit)

\* key_of: did, else handle.
key_of(obj) == OrElse(obj.did, obj.handle)

\* seed_matches
seed_matches(obj) == matches_any_keyword(combine_bio_desc(obj), args.keywords)

\* seed.get("handle") or seed.get("did") or "<unknown>"
handle_or_did(obj) == OrElse(obj.handle, OrElse(obj.did, "<unknown>"))

\* The cursors the server returns in a crawl, and its answers: any page while
\* it has data left, an empty page or a failure once it has none.
CrawlCursors == {NoneV, "c1"}
Min(a, b) == IF a <= b THEN a ELSE b
PageLenLeft == Min(MaxPageLen, MaxItems - served)
OkPage(items, c) == [ok |-> TRUE, has_items |-> TRUE, items |-> items, cursor |-> c]
SeedResponses ==
  IF ~WillRequest(seed_source) \/ source_exhausted THEN {NoResponse}
  ELSE CASE server.kind = "budget" ->
              IF PageLenLeft > 0
              THEN Responses(SeedAccounts, PageLenLeft, CrawlCursors) ELSE Exhausted
         [] server.kind = "scripted" ->
              IF seed_source.requests = 0
              THEN {OkPage(server.seeds, c) : c \in CrawlCursors}
              ELSE {OkPage(<<>>, NoneV), NoResponse}
         [] server.kind = "finite" ->
              IF seed_source.requests < MaxSeedBatches
              THEN Responses(LiveAccounts, MaxPageLen, CrawlCursors) \ {Failure}
              ELSE {OkPage(<<>>, NoneV)}
FollowerResponses ==
  CASE server.kind = "budget" ->
         IF PageLenLeft > 0
         THEN Responses(Accounts, PageLenLeft, CrawlCursors) ELSE Exhausted
    [] server.kind = "scripted" -> {OkPage(server.page, c) : c \in CrawlCursors}
    [] server.kind = "finite" ->
         Responses(LiveAccounts, MaxPageLen, {NoneV}) \ {Failure}
\* The answer to a next() on follower_pages: it matters only if a request is made.
NextPageResponses ==
  IF WillRequest(follower_pages) THEN FollowerResponses ELSE {NoResponse}

\* What the operator types at the prompt, after strip().lower().
Choices == {"", "y", "yes", "n"}

\* choice in ("", "y", "yes")
Accepts(choice) == choice \in {"", "y", "yes"}

\* refill_seeds with "except Exception": a failed request is taken for the
\* end of the seed source.
refill_seeds_CatchesAll(resp) ==
  LET same == [ret |-> "false", seed_source |-> seed_source, seed_buffer |-> seed_buffer,
               source_exhausted |-> source_exhausted, idx |-> current_seed_batch_idx]
  IN  IF source_exhausted THEN same
      ELSE LET g == GenNext(seed_source, resp)
           IN  IF g.pc \in {"failed", "done"}
               THEN [same EXCEPT !.seed_source = g, !.source_exhausted = TRUE]
               ELSE [same EXCEPT !.ret = "true", !.seed_source = g,
                                 !.seed_buffer = seed_buffer \o g.batch,
                                 !.idx = current_seed_batch_idx + 1]

\* refill_seeds: ret is "true", "false", or "raise" when the request failed.
refill_seeds(resp) ==
  LET same == [ret |-> "false", seed_source |-> seed_source, seed_buffer |-> seed_buffer,
               source_exhausted |-> source_exhausted, idx |-> current_seed_batch_idx]
  IN  IF source_exhausted THEN same
      ELSE LET g == GenNext(seed_source, resp)
           IN  IF g.pc = "failed" THEN [same EXCEPT !.ret = "raise", !.seed_source = g]
               ELSE IF g.pc = "done"
               THEN [same EXCEPT !.seed_source = g, !.source_exhausted = TRUE]
               ELSE [same EXCEPT !.ret = "true", !.seed_source = g,
                                 !.seed_buffer = seed_buffer \o g.batch,
                                 !.idx = current_seed_batch_idx + 1]

\* The caller's branch with the break taken whatever refill_seeds returns.
AfterRefill_AlwaysBreak(r, pcTrue, pcFalse) ==
  /\ seed_source' = r.seed_source
  /\ seed_buffer' = r.seed_buffer
  /\ source_exhausted' = r.source_exhausted
  /\ current_seed_batch_idx' = r.idx
  /\ served' = served + Len(r.seed_source.batch)
  /\ pc' = CASE r.ret = "raise" -> "aborted"
             [] r.ret = "true"  -> (IF pcFalse = "done" THEN "done" ELSE pcTrue)
             [] r.ret = "false" -> pcFalse

\* The part of the state a refill_seeds call and its caller's branch decide.
AfterRefill(r, pcTrue, pcFalse) ==
  /\ seed_source' = r.seed_source
  /\ seed_buffer' = r.seed_buffer
  /\ source_exhausted' = r.source_exhausted
  /\ current_seed_batch_idx' = r.idx
  /\ served' = served + Len(r.seed_source.batch)
  /\ pc' = CASE r.ret = "raise" -> "aborted"
             [] r.ret = "true"  -> pcTrue
             [] r.ret = "false" -> pcFalse

\* The entry of mode_degreesearch: the keywords check and the first refill.
Start ==
  /\ pc = "start"
  /\ IF args.keywords = <<>>
     THEN /\ pc' = "done"
          /\ UNCHANGED <<seed_source, seed_buffer, source_exhausted,
                         current_seed_batch_idx, served>>
     ELSE \E resp \in SeedResponses :
            LET r == refill_seeds(resp)
            IN  AfterRefill(r, "loop", IF r.seed_buffer = <<>> THEN "done" ELSE "loop")
  /\ UNCHANGED <<server, matcher, searching, following, deletes, gen, last_resp, args, stats, queue, visited_seeds, seen_candidates,
                 session_followed, added, skipped, depth, follower_pages, followers,
                 reported, fetches, prompts, creates>>

\* The intake test one short: len(queue) < batch_size - 1.
IntakeGuard_OneShort == seed_buffer # <<>> /\ Len(queue) < batch_size - 1

\* while seed_buffer and len(queue) < batch_size
IntakeGuard == seed_buffer # <<>> /\ Len(queue) < batch_size

\* if not k or k in visited_seeds: continue (seed intake)
IntakeSkipsKey(k) == Falsy(k) \/ k \in visited_seeds

\* The intake's matcher gate left open: every seed passes.
IntakePassesAll(seed) == TRUE

\* if not seed_matches(seed): continue (seed intake)
IntakePasses(seed) == seed_matches(seed)

\* One pass of the seed-intake loop: a seed leaves the buffer and, if it has
\* a new key and its bio matches, joins the queue at depth 0.
IntakeSeed ==
  /\ pc = "loop"
  /\ IntakeGuard
  /\ LET seed == Head(seed_buffer)
         k == key_of(seed)
     IN  /\ seed_buffer' = Tail(seed_buffer)
         /\ IF IntakeSkipsKey(k) THEN UNCHANGED <<stats, queue>>
            ELSE IF ~IntakePasses(seed)
            THEN stats' = StatsB(stats, "seeds_seen") /\ UNCHANGED queue
            ELSE /\ stats' = StatsB(StatsB(stats, "seeds_seen"), "seeds_matched")
                 /\ queue' = Append(queue, [node |-> seed, depth |-> 0])
  /\ UNCHANGED <<server, matcher, searching, following, deletes, gen, last_resp, args, pc, seed_source, visited_seeds, seen_candidates,
                 session_followed, added, skipped, source_exhausted,
                 current_seed_batch_idx, depth, follower_pages, followers,
                 reported, fetches, prompts, creates, served>>

\* The refill test as "the queue is below batch_size".
not_queue_BelowBatch == Len(queue) < batch_size

\* if not queue
not_queue == queue = <<>>

\* if not queue: if refill_seeds(): continue; break
RefillOrBreak ==
  /\ pc = "loop"
  /\ ~IntakeGuard
  /\ not_queue
  /\ \E resp \in SeedResponses : AfterRefill(refill_seeds(resp), "loop", "done")
  /\ UNCHANGED <<server, matcher, searching, following, deletes, gen, last_resp, args, stats, queue, visited_seeds, seen_candidates,
                 session_followed, added, skipped, depth, follower_pages, followers,
                 reported, fetches, prompts, creates>>

\* The pop's test with the key test alone: a visited key is expanded again.
PopSkipsKeyNoVisitedTest(k) == Falsy(k)

\* if not k or k in visited_seeds: continue (at the pop)
PopSkipsKey(k) == Falsy(k) \/ k \in visited_seeds

\* if depth >= max_depth: continue
DepthTerminal(d) == d >= max_depth

\* follower_pages between expansions: a generator that returned is never
\* used again, so the variable is put back to a generator not yet run (one
\* whose request failed is kept as it is).
IdleFollowerPages == NewGen("followers", NoneV, batch_size, FOLLOWER_MAX_PAGES)

\* The record of a neighbor-listing request.
FetchRecord(e) ==
  [actor |-> handle_or_did(e.node), key |-> key_of(e.node), depth |-> e.depth,
   account |-> e.node]

\* deque.pop(): the entry is taken from the right end instead.
popright(q) == [item |-> q[Len(q)], rest |-> SubSeq(q, 1, Len(q) - 1)]

\* queue.popleft(): the entry taken and the queue that is left.
popleft(q) == [item |-> Head(q), rest |-> Tail(q)]

\* The pop of a frontier entry: the visited test, the matcher re-validation,
\* the report, the depth test, and the first next() on the entry's
\* iter_followers generator.  depth is read only while a page is reviewed;
\* outside of that it is kept at 0.
PopSeed ==
  /\ pc = "loop"
  /\ ~IntakeGuard
  /\ ~not_queue
  /\ LET e == popleft(queue).item
         k == key_of(e.node)
         continue == /\ pc' = "loop"
                     /\ UNCHANGED <<depth, follower_pages, followers, fetches, served>>
     IN  /\ queue' = popleft(queue).rest
         /\ IF PopSkipsKey(k)
            THEN continue /\ UNCHANGED <<visited_seeds, reported>>
            ELSE /\ visited_seeds' = visited_seeds \cup {k}
                 /\ IF ~seed_matches(e.node)
                    THEN continue /\ UNCHANGED reported
                    ELSE /\ reported' = Append(reported, <<k, e.depth>>)
                         /\ IF DepthTerminal(e.depth)
                            THEN continue
                            ELSE \E resp \in FollowerResponses :
                                   LET g0 == NewGen("followers", handle_or_did(e.node),
                                                    batch_size, FOLLOWER_MAX_PAGES)
                                       g == GenNext(g0, resp)
                                   IN  /\ follower_pages' = IF g.pc \in {"yielded", "failed"}
                                                          THEN g ELSE IdleFollowerPages
                                       /\ fetches' = IF g.requests > g0.requests
                                                     THEN Append(fetches, FetchRecord(e))
                                                     ELSE fetches
                                       /\ depth' = IF g.pc = "yielded" THEN e.depth ELSE 0
                                       /\ followers' = g.batch
                                       /\ served' = served + Len(g.batch)
                                       /\ pc' = CASE g.pc = "failed"  -> "aborted"
                                                  [] g.pc = "yielded" -> "page"
                                                  [] g.pc = "done"    -> "loop"
  /\ UNCHANGED <<server, matcher, searching, following, deletes, gen, last_resp, args, stats, seed_source, seed_buffer, seen_candidates,
                 session_followed, added, skipped, source_exhausted,
                 current_seed_batch_idx, prompts, creates>>

\* The candidate filter without its already-following test.
reject_reason_NoFollowingTest(f) ==
  LET f_key == key_of(f)
  IN  CASE Falsy(f_key) -> "no_key_skip"
        [] f_key \in seen_candidates -> "dedup_skip"
        [] f_key = ViewerDid -> "self_skip"
        [] ~matches_any_keyword(combine_bio_desc(f), args.keywords) -> "keyword_miss"
        [] OTHER -> ""

\* The candidate filter without its seen_candidates test.
reject_reason_NoDedup(f) ==
  LET f_key == key_of(f)
  IN  CASE Falsy(f_key) -> "no_key_skip"
        [] f_key = ViewerDid -> "self_skip"
        [] ~Falsy(f.following) \/ f_key \in session_followed -> "already_following_skip"
        [] ~matches_any_keyword(combine_bio_desc(f), args.keywords) -> "keyword_miss"
        [] OTHER -> ""

\* The candidate filter without its self-loop guard.
reject_reason_NoSelfGuard(f) ==
  LET f_key == key_of(f)
  IN  CASE Falsy(f_key) -> "no_key_skip"
        [] f_key \in seen_candidates -> "dedup_skip"
        [] ~Falsy(f.following) \/ f_key \in session_followed -> "already_following_skip"
        [] ~matches_any_keyword(combine_bio_desc(f), args.keywords) -> "keyword_miss"
        [] OTHER -> ""

\* The candidate filter: the counter of the first test that rejects the
\* neighbor, "" when it survives.
reject_reason(f) ==
  LET f_key == key_of(f)
  IN  CASE Falsy(f_key) -> "no_key_skip"
        [] f_key \in seen_candidates -> "dedup_skip"
        [] f_key = ViewerDid -> "self_skip"
        [] ~Falsy(f.following) \/ f_key \in session_followed -> "already_following_skip"
        [] ~matches_any_keyword(combine_bio_desc(f), args.keywords) -> "keyword_miss"
        [] OTHER -> ""

\* The enqueue test one level too deep: depth + 1 <= max_depth.
ShouldEnqueueOneDeeper(d, f) == d + 1 <= max_depth /\ seed_matches(f)

\* if depth + 1 <= max_depth - 1 and seed_matches(f)
ShouldEnqueue(d, f) == d + 1 <= max_depth - 1 /\ seed_matches(f)

\* stats.followed(); added += 1; the enqueue of the followed account.
Followed(st, f) ==
  LET st1 == [st EXCEPT !.stats = StatsB(@, "followed_added"), !.added = @ + 1]
  IN  IF ShouldEnqueue(depth, f)
      THEN [st1 EXCEPT !.queue = Append(@, [node |-> f, depth |-> depth + 1]),
                       !.stats = StatsB(@, "enqueued_new_seeds")]
      ELSE st1

\* The review with a dry branch that follows without the enqueue.
review_in_DryNoEnqueue(dry_run, f, choice, api_ok) ==
  LET st0 == [stats |-> account_seen(stats), seen_candidates |-> seen_candidates,
              session_followed |-> session_followed, added |-> added,
              skipped |-> skipped, queue |-> queue, prompts |-> prompts,
              creates |-> creates]
      why == reject_reason(f)
  IN  IF why # "" THEN [st0 EXCEPT !.stats = StatsB(@, why)]
      ELSE LET st1 == [st0 EXCEPT !.seen_candidates = @ \cup {key_of(f)},
                                  !.stats = candidate(@),
                                  !.prompts = Append(@, key_of(f))]
               subject_did == f.did
           IN  IF ~Accepts(choice)
               THEN [st1 EXCEPT !.stats = StatsB(@, "user_declined"), !.skipped = @ + 1]
               ELSE IF Falsy(subject_did)
               THEN [st1 EXCEPT !.stats = StatsB(@, "no_did_skip"), !.skipped = @ + 1]
               ELSE LET st2 == [st1 EXCEPT !.session_followed = @ \cup {subject_did}]
                    IN  IF dry_run
                        THEN [st2 EXCEPT !.stats = StatsB(@, "followed_added"),
                                         !.added = @ + 1]
                        ELSE LET st3 == [st2 EXCEPT !.creates =
                                           Append(@, [subject |-> subject_did, ok |-> api_ok])]
                             IN  IF api_ok THEN Followed(st3, f)
                                 ELSE [st3 EXCEPT !.stats = StatsB(@, "api_error"),
                                                  !.skipped = @ + 1]

\* The review of one neighbor f of the page in dry-run mode or not, given the
\* operator's answer and whether create_follow_record succeeds: the values it
\* leaves in the variables it may change.
review_in(dry_run, f, choice, api_ok) ==
  LET st0 == [stats |-> account_seen(stats), seen_candidates |-> seen_candidates,
              session_followed |-> session_followed, added |-> added,
              skipped |-> skipped, queue |-> queue, prompts |-> prompts,
              creates |-> creates]
      why == reject_reason(f)
  IN  IF why # "" THEN [st0 EXCEPT !.stats = StatsB(@, why)]
      ELSE LET st1 == [st0 EXCEPT !.seen_candidates = @ \cup {key_of(f)},
                                  !.stats = candidate(@),
                                  !.prompts = Append(@, key_of(f))]
               subject_did == f.did
           IN  IF ~Accepts(choice)
               THEN [st1 EXCEPT !.stats = StatsB(@, "user_declined"), !.skipped = @ + 1]
               ELSE IF Falsy(subject_did)
               THEN [st1 EXCEPT !.stats = StatsB(@, "no_did_skip"), !.skipped = @ + 1]
               ELSE LET st2 == [st1 EXCEPT !.session_followed = @ \cup {subject_did}]
                    IN  IF dry_run THEN Followed(st2, f)
                        ELSE LET st3 == [st2 EXCEPT !.creates =
                                           Append(@, [subject |-> subject_did, ok |-> api_ok])]
                             IN  IF api_ok THEN Followed(st3, f)
                                 ELSE [st3 EXCEPT !.stats = StatsB(@, "api_error"),
                                                  !.skipped = @ + 1]

\* The review with a failed edge creation that is not counted as skipped.
review_FailureNotSkipped(f, choice, api_ok) ==
  LET r == review_in(args.dry_run, f, choice, api_ok)
  IN  IF r.stats.cum["api_error"] > stats.cum["api_error"]
      THEN [r EXCEPT !.skipped = skipped]
      ELSE r

\* The review as the crawl runs it: args.dry_run chooses the branch.
review(f, choice, api_ok) == review_in(args.dry_run, f, choice, api_ok)

\* for f in followers: the review of the next neighbor of the page.
ProcessFollower ==
  /\ pc = "page"
  /\ followers # <<>>
  /\ \E choice \in Choices, api_ok \in BOOLEAN :
       LET r == review(Head(followers), choice, api_ok)
       IN  /\ stats' = r.stats
           /\ seen_candidates' = r.seen_candidates
           /\ session_followed' = r.session_followed
           /\ added' = r.added
           /\ skipped' = r.skipped
           /\ queue' = r.queue
           /\ prompts' = r.prompts
           /\ creates' = r.creates
  /\ followers' = Tail(followers)
  /\ UNCHANGED <<server, matcher, searching, following, deletes, gen, last_resp, args, pc, seed_source, seed_buffer, visited_seeds,
                 source_exhausted, current_seed_batch_idx, depth, follower_pages,
                 reported, fetches, served>>

\* for followers in follower_pages: the next() after a page has been reviewed.
NextFollowersPage ==
  /\ pc = "page"
  /\ followers = <<>>
  /\ \E resp \in NextPageResponses :
       LET g == GenNext(follower_pages, resp)
       IN  /\ follower_pages' = IF g.pc \in {"yielded", "failed"}
                                  THEN g ELSE IdleFollowerPages
           /\ fetches' = IF g.requests > follower_pages.requests
                         THEN Append(fetches, fetches[Len(fetches)])
                         ELSE fetches
           /\ followers' = g.batch
           /\ served' = served + Len(g.batch)
           /\ depth' = IF g.pc = "yielded" THEN depth ELSE 0
           /\ pc' = CASE g.pc = "failed"  -> "aborted"
                      [] g.pc = "yielded" -> "page"
                      [] g.pc = "done"    -> "loop"
  /\ UNCHANGED <<server, matcher, searching, following, deletes, gen, last_resp, args, stats, seed_source, seed_buffer, queue,
                 visited_seeds, seen_candidates, session_followed, added, skipped,
                 source_exhausted, current_seed_batch_idx, reported, prompts, creates>>

\* The command lines modelled: --dry-run or not, --degreelimit, --limit, and
\* a keywords file with phrases or without any.
DegreeLimits == {0, 2}
Limits == {0, 3}
ArgSets ==
  [dry_run : BOOLEAN, nodesc : {FALSE}, degreelimit : DegreeLimits, limit : Limits,
   keywords : {Keywords}]
    \cup {[dry_run |-> FALSE, nodesc |-> FALSE, degreelimit |-> 1, limit |-> 1,
            keywords |-> <<>>]}

Init ==
  /\ gen = NewGen("follows", "subject", 1, 0)
  /\ last_resp = NoResponse
  /\ \E a \in ArgSets : CrawlInit(a)

Next ==
  \/ Start
  \/ IntakeSeed
  \/ RefillOrBreak
  \/ PopSeed
  \/ ProcessFollower
  \/ NextFollowersPage

Spec == Init /\ [][Next]_vars

\* ---------------------------------------------------------- mode_searching
\* The keywords file of a search, and the accounts the actor search returns:
\* nS holds the phrase "a b" as it is written, nA only after whitespace is
\* collapsed.
SearchKeywordLines == KeywordLines \o << <<"X">> >>
SearchKeywords == read_keywords(SearchKeywordLines)
nS == Account("did:s", "s.h", <<"A", " ", "b">>, <<>>, <<>>, NoneV)
SearchAccounts == {nA, nS, nNoDid, nFollowed}

\* iter_search_actors(kw, batch_size=min(50, batch_size),
\*                    max_pages=max(1, (batch_size + 49)//50))
NewSearch(i) ==
  NewGen("search", args.keywords[i], Min(50, batch_size),
         Max(1, (batch_size + 49) \div 50))

SearchResponses ==
  IF ~WillRequest(searching.search_pages) THEN {NoResponse}
  ELSE IF PageLenLeft > 0
  THEN Responses(SearchAccounts, PageLenLeft, CrawlCursors) ELSE Exhausted

\* The entry of mode_searching: the keywords check, and the generator of the
\* first keyword.
SearchingStart ==
  /\ searching.pc = "start"
  /\ searching' = IF args.keywords = <<>> THEN [searching EXCEPT !.pc = "done"]
                  ELSE [searching EXCEPT !.pc = "pages", !.kw = 1,
                                         !.search_pages = NewSearch(1)]
  /\ UNCHANGED <<server, matcher, gen, last_resp, args, degreeVars, prompts, creates, served,
                 following, deletes>>

\* for page in iter_search_actors(...): the next page of the keyword, or the
\* generator of the next keyword, or the end of the keywords.
SearchingNextPage ==
  /\ searching.pc = "pages"
  /\ searching.page = <<>>
  /\ \E resp \in SearchResponses :
       LET g == GenNext(searching.search_pages, resp)
       IN  /\ searching' =
                CASE g.pc = "failed"  -> [searching EXCEPT !.pc = "aborted", !.search_pages = g]
                  [] g.pc = "yielded" -> [searching EXCEPT !.page = g.batch, !.search_pages = g]
                  [] g.pc = "done"    ->
                       IF searching.kw < Len(args.keywords)
                       THEN [searching EXCEPT !.kw = @ + 1,
                                              !.search_pages = NewSearch(searching.kw + 1)]
                       ELSE [searching EXCEPT !.pc = "done", !.search_pages = g]
           /\ served' = served + Len(g.batch)
  /\ UNCHANGED <<server, matcher, gen, last_resp, args, degreeVars, prompts, creates, following, deletes>>

\* kw not in (text.lower() if text else "")
kw_not_in(kw, text) == ~Contains(Lower(text), kw)

\* The review of one actor a of a page of keyword kw, given the operator's
\* answer and whether create_follow_record succeeds.
searching_review(a, kw, choice, api_ok) ==
  LET st0 == [seen |-> searching.seen, session_followed |-> searching.session_followed,
              added |-> searching.added, skipped |-> searching.skipped,
              prompts |-> prompts, creates |-> creates]
      key == OrElse(a.did, a.handle)
  IN  IF Falsy(key) \/ key \in searching.seen THEN st0
      ELSE LET st1 == [st0 EXCEPT !.seen = @ \cup {key}]
           IN  IF kw_not_in(kw, combine_bio_desc(a)) THEN st1
               ELSE IF ~Falsy(a.following) \/ key \in searching.session_followed THEN st1
               ELSE LET st2 == [st1 EXCEPT !.prompts = Append(@, key)]
                        subject_did == a.did
                    IN  IF choice # "y" THEN [st2 EXCEPT !.skipped = @ + 1]
                        ELSE IF Falsy(subject_did) THEN [st2 EXCEPT !.skipped = @ + 1]
                        ELSE LET st3 == [st2 EXCEPT !.session_followed = @ \cup {subject_did}]
                             IN  IF args.dry_run THEN [st3 EXCEPT !.added = @ + 1]
                                 ELSE LET st4 == [st3 EXCEPT !.creates =
                                                    Append(@, [subject |-> subject_did,
                                                               ok |-> api_ok])]
                                      IN  IF api_ok THEN [st4 EXCEPT !.added = @ + 1]
                                          ELSE [st4 EXCEPT !.skipped = @ + 1]

\* for a in page: the review of the next actor of the page.
SearchingReview ==
  /\ searching.pc = "pages"
  /\ searching.page # <<>>
  /\ \E choice \in Choices, api_ok \in BOOLEAN :
       LET r == searching_review(Head(searching.page), args.keywords[searching.kw],
                                 choice, api_ok)
       IN  /\ searching' = [searching EXCEPT !.page = Tail(@), !.seen = r.seen,
                                             !.session_followed = r.session_followed,
                                             !.added = r.added, !.skipped = r.skipped]
           /\ prompts' = r.prompts
           /\ creates' = r.creates
  /\ UNCHANGED <<server, matcher, gen, last_resp, args, degreeVars, served, following, deletes>>

\* ---------------------------------------------------------- mode_following
\* The accounts of the viewer's follows listing: with a matching bio, with
\* another bio, with none; with the follow record's URI or without.
FollowUri == "at://did:me/app.bsky.graph.follow/1"
nMissFollowed == Account("did:m", "m.h", BioMiss, <<>>, <<>>, FollowUri)
nEmptyFollowed == Account("did:e", "e.h", <<" ">>, <<>>, <<"\t">>, FollowUri)
FollowingAccounts == {nFollowed, nMissFollowed, nMiss, nEmptyFollowed}

\* Follow-record URIs the listing may carry besides FollowUri: one with four
\* '/'-separated parts, one with another scheme; and the accounts of a
\* listing that carries them.
ShortUri == "at://did:me/1"
HttpUri == "https://did:me/app.bsky.graph.follow/1"
nShortUri == Account("did:u", "u.h", <<>>, <<>>, <<>>, ShortUri)
nHttpUri == Account("did:w", "w.h", BioMiss, <<>>, <<>>, HttpUri)
UriAccounts == {nFollowed, nMissFollowed, nShortUri, nHttpUri}
UriServer == [kind |-> "uris", seeds |-> <<>>, page |-> <<>>]

\* The characters of a URI.
UriText(u) ==
  CASE u = FollowUri -> <<"a", "t", ":", "/", "/", "d", "i", "d", ":", "m", "e", "/", "a", "p", "p", ".", "b", "s", "k", "y", ".", "g", "r", "a", "p", "h", ".", "f", "o", "l", "l", "o", "w", "/", "1">>
    [] u = ShortUri  -> <<"a", "t", ":", "/", "/", "d", "i", "d", ":", "m", "e", "/", "1">>
    [] u = HttpUri   -> <<"h", "t", "t", "p", "s", ":", "/", "/", "d", "i", "d", ":", "m", "e", "/", "a", "p", "p", ".", "b", "s", "k", "y", ".", "g", "r", "a", "p", "h", ".", "f", "o", "l", "l", "o", "w", "/", "1">>
    [] OTHER         -> <<>>

FollowingResponses ==
  IF ~WillRequest(following.follows_pages) THEN {NoResponse}
  ELSE IF PageLenLeft > 0
  THEN Responses(IF server.kind = "uris" THEN UriAccounts ELSE FollowingAccounts,
                 PageLenLeft, CrawlCursors)
  ELSE Exhausted

\* str.startswith
StartsWith(s, prefix) == Len(s) >= Len(prefix) /\ SubSeq(s, 1, Len(prefix)) = prefix

\* str.split(sep) for a one-character separator: empty parts are kept.
RECURSIVE SplitBy(_, _, _, _)
SplitBy(s, sep, word, acc) ==
  IF s = <<>> THEN Append(acc, word)
  ELSE IF Head(s) = sep THEN SplitBy(Tail(s), sep, <<>>, Append(acc, word))
       ELSE SplitBy(Tail(s), sep, Append(word, Head(s)), acc)

\* delete_follow_record without its two checks of the URI.
delete_follow_record_NoValidation(at_uri, api_ok) ==
  [raised |-> IF api_ok THEN "" ELSE "RuntimeError", requested |-> TRUE,
   collection |-> NoneV, rkey |-> NoneV]

\* delete_follow_record: what it raises ("" when it returns), whether it got
\* as far as the POST, and the collection and rkey it sends.
delete_follow_record(at_uri, api_ok) ==
  LET text == UriText(at_uri)
      parts == SplitBy(text, "/", <<>>, <<>>)
      ValueError == [raised |-> "ValueError", requested |-> FALSE,
                     collection |-> NoneV, rkey |-> NoneV]
  IN  IF Falsy(at_uri) \/ ~StartsWith(text, <<"a", "t", ":", "/", "/">>) THEN ValueError
      ELSE IF Len(parts) < 5 THEN ValueError
      ELSE [raised |-> IF api_ok THEN "" ELSE "RuntimeError", requested |-> TRUE,
            collection |-> parts[4], rkey |-> parts[5]]

\* The entry of deletes for one call of delete_follow_record.
DeleteCall(follow_uri, api_ok) ==
  LET r == delete_follow_record(follow_uri, api_ok)
  IN  [uri |-> follow_uri, requested |-> r.requested, ok |-> r.raised = ""]

\* follows.sort(key=lambda f: 0 if not combine_bio_desc(f) else 1): a stable
\* sort, the accounts without text first.
sort_empty_first(follows) ==
  SelectSeq(follows, LAMBDA f : combine_bio_desc(f) = <<>>)
    \o SelectSeq(follows, LAMBDA f : combine_bio_desc(f) # <<>>)

\* for follows in iter_follows(...): the next batch, sorted under --nodesc.
FollowingNextBatch ==
  /\ following.pc = "batches"
  /\ following.follows = <<>>
  /\ \E resp \in FollowingResponses :
       LET g == GenNext(following.follows_pages, resp)
       IN  /\ following' =
                CASE g.pc = "failed"  -> [following EXCEPT !.pc = "aborted", !.follows_pages = g]
                  [] g.pc = "yielded" ->
                       [following EXCEPT !.follows_pages = g, !.batches = @ + 1,
                          !.follows = IF args.nodesc THEN sort_empty_first(g.batch)
                                      ELSE g.batch]
                  [] g.pc = "done"    -> [following EXCEPT !.pc = "done", !.follows_pages = g]
           /\ served' = served + Len(g.batch)
  /\ UNCHANGED <<server, matcher, gen, last_resp, args, degreeVars, prompts, creates, searching, deletes>>

\* The review without the keep on a keyword match.
following_review_NoKeep(f, choice, api_ok) ==
  LET st0 == [kept |-> following.kept, reviewed_no_match |-> following.reviewed_no_match,
              empties |-> following.empties, would_unfollow |-> following.would_unfollow,
              prompts |-> prompts, deletes |-> deletes]
      actor == handle_or_did(f)
      text == combine_bio_desc(f)
      follow_uri == f.following
      unfollow(st) ==
        IF args.dry_run THEN [st EXCEPT !.would_unfollow = @ + 1]
        ELSE [st EXCEPT !.deletes = Append(@, DeleteCall(follow_uri, api_ok))]
  IN  IF args.nodesc /\ text = <<>>
      THEN LET st1 == IF Falsy(follow_uri) THEN st0 ELSE unfollow(st0)
           IN  [st1 EXCEPT !.empties = @ + 1]
      ELSE LET st1 == [st0 EXCEPT !.reviewed_no_match = @ + 1,
                                  !.prompts = Append(@, actor)]
           IN  IF Falsy(follow_uri) THEN st1
               ELSE IF choice = "y" THEN unfollow(st1)
               ELSE st1

\* The review with an auto-unfollow that does not look at --dry-run.
following_review_AutoUnfollowNotDry(f, choice, api_ok) ==
  LET st0 == [kept |-> following.kept, reviewed_no_match |-> following.reviewed_no_match,
              empties |-> following.empties, would_unfollow |-> following.would_unfollow,
              prompts |-> prompts, deletes |-> deletes]
      actor == handle_or_did(f)
      text == combine_bio_desc(f)
      follow_uri == f.following
      unfollow(st) ==
        IF args.dry_run THEN [st EXCEPT !.would_unfollow = @ + 1]
        ELSE [st EXCEPT !.deletes = Append(@, DeleteCall(follow_uri, api_ok))]
  IN  IF args.nodesc /\ text = <<>>
      THEN LET st1 == IF Falsy(follow_uri) THEN st0
                      ELSE [st0 EXCEPT !.deletes =
                              Append(@, DeleteCall(follow_uri, api_ok))]
           IN  [st1 EXCEPT !.empties = @ + 1]
      ELSE IF args.keywords # <<>> /\ matches_any_keyword(text, args.keywords)
      THEN [st0 EXCEPT !.kept = @ + 1]
      ELSE LET st1 == [st0 EXCEPT !.reviewed_no_match = @ + 1,
                                  !.prompts = Append(@, actor)]
           IN  IF Falsy(follow_uri) THEN st1
               ELSE IF choice = "y" THEN unfollow(st1)
               ELSE st1

\* The review of one followed account f, given the operator's answer and
\* whether delete_follow_record succeeds; both readline calls are recorded
\* in prompts, would_unfollow counts the "[dry-run] Would unfollow" lines.
following_review(f, choice, api_ok) ==
  LET st0 == [kept |-> following.kept, reviewed_no_match |-> following.reviewed_no_match,
              empties |-> following.empties, would_unfollow |-> following.would_unfollow,
              prompts |-> prompts, deletes |-> deletes]
      actor == handle_or_did(f)
      text == combine_bio_desc(f)
      follow_uri == f.following
      unfollow(st) ==
        IF args.dry_run THEN [st EXCEPT !.would_unfollow = @ + 1]
        ELSE [st EXCEPT !.deletes = Append(@, DeleteCall(follow_uri, api_ok))]
  IN  IF args.nodesc /\ text = <<>>
      THEN LET st1 == IF Falsy(follow_uri) THEN st0 ELSE unfollow(st0)
           IN  [st1 EXCEPT !.empties = @ + 1]
      ELSE IF args.keywords # <<>> /\ matches_any_keyword(text, args.keywords)
      THEN [st0 EXCEPT !.kept = @ + 1]
      ELSE LET st1 == [st0 EXCEPT !.reviewed_no_match = @ + 1,
                                  !.prompts = Append(@, actor)]
           IN  IF Falsy(follow_uri) THEN st1
               ELSE IF choice = "y" THEN unfollow(st1)
               ELSE st1

\* for f in follows: the review of the next account of the batch.
FollowingReview ==
  /\ following.pc = "batches"
  /\ following.follows # <<>>
  /\ \E choice \in Choices, api_ok \in BOOLEAN :
       LET r == following_review(Head(following.follows), choice, api_ok)
       IN  /\ following' = [following EXCEPT !.follows = Tail(@), !.kept = r.kept,
                                             !.reviewed_no_match = r.reviewed_no_match,
                                             !.empties = r.empties,
                                             !.would_unfollow = r.would_unfollow]
           /\ prompts' = r.prompts
           /\ deletes' = r.deletes
  /\ UNCHANGED <<server, matcher, gen, last_resp, args, degreeVars, creates, served, searching>>

\* ------------------------------------------------------- the three modes
\* The command lines of the other two modes: a search over two phrases or
\* none, with one page per keyword (--limit 0) or two (--limit 51); a review
\* of the follows with and without --nodesc and keywords.
SearchLimits == {0, 51}
SearchArgSets ==
  [dry_run : BOOLEAN, nodesc : {FALSE}, degreelimit : {1}, limit : SearchLimits,
   keywords : {SearchKeywords}]
    \cup {[dry_run |-> FALSE, nodesc |-> FALSE, degreelimit |-> 1, limit |-> 0,
            keywords |-> <<>>]}
FollowingArgSets ==
  [dry_run : BOOLEAN, nodesc : BOOLEAN, degreelimit : {1}, limit : {0},
   keywords : {<<>>, Keywords}]

\* The state before mode_searching runs.
SearchingInit ==
  /\ \E a \in SearchArgSets : CrawlState(a, "idle")
  /\ searching = [NoSearching EXCEPT !.pc = "start"]
  /\ following = NoFollowing
  /\ deletes = <<>>
  /\ server = BudgetServer
  /\ matcher = NoMatcher

\* The state before mode_following runs against server srv: its loop over
\* iter_follows.
FollowingInitOn(srv) ==
  /\ \E a \in FollowingArgSets :
       /\ CrawlState(a, "idle")
       /\ following = [NoFollowing EXCEPT !.pc = "batches",
                         !.follows_pages = NewGen("follows", ViewerHandle,
                                                  Max(1, a.limit), SEED_MAX_PAGES)]
  /\ searching = NoSearching
  /\ deletes = <<>>
  /\ server = srv
  /\ matcher = NoMatcher

\* The state before mode_following runs.
FollowingInit == FollowingInitOn(BudgetServer)

\* main(): the mode the command line names is run.
ModesInit ==
  /\ gen = NewGen("follows", "subject", 1, 0)
  /\ last_resp = NoResponse
  /\ \/ \E a \in ArgSets : CrawlInit(a)
     \/ SearchingInit
     \/ FollowingInit

ModesNext ==
  \/ Start
  \/ IntakeSeed
  \/ RefillOrBreak
  \/ PopSeed
  \/ ProcessFollower
  \/ NextFollowersPage
  \/ SearchingStart
  \/ SearchingNextPage
  \/ SearchingReview
  \/ FollowingNextBatch
  \/ FollowingReview

ModesSpec == ModesInit /\ [][ModesNext]_vars

\* ----------------------------------------------------- mode_following alone
\* The review of a follows listing whose follow-record URIs are well formed
\* or not.
FollowingOnlyInit ==
  /\ gen = NewGen("follows", "subject", 1, 0)
  /\ last_resp = NoResponse
  /\ FollowingInitOn(UriServer)

FollowingNext == FollowingNextBatch \/ FollowingReview

FollowingSpec == FollowingOnlyInit /\ [][FollowingNext]_vars

\* ------------------------------------------- one seed batch, one neighbor page
\* The crawl against a scripted server: the follows listing returns one batch
\* of three seeds of which only the second matches the keywords, and every
\* followers listing returns one page of two matching neighbors with
\* distinct keys, one non-matching neighbor and one the viewer already
\* follows, in any order.
ScenarioSeeds == {<<x, nA, nMiss>> : x \in {nMiss, nEmptyFollowed}}

ScenarioPages ==
  {p \in [1..4 -> {nB, nNoDid, nMiss, nFollowed}] :
     \A i, j \in 1..4 : p[i] = p[j] => i = j}

ScenarioArgSets ==
  [dry_run : BOOLEAN, nodesc : {FALSE}, degreelimit : {0, 1}, limit : {0, 3},
   keywords : {Keywords}]

ScenarioInit ==
  /\ gen = NewGen("follows", "subject", 1, 0)
  /\ last_resp = NoResponse
  /\ \E a \in ScenarioArgSets, seeds \in ScenarioSeeds, page \in ScenarioPages :
       CrawlInitOn(a, ScriptedServer(seeds, page))

ScenarioSpec == ScenarioInit /\ [][Next]_vars

\* ----------------------------------------------------- the text matcher alone
\* The texts and the keyword files the matcher is given: every text of up to
\* MaxTextLen characters over a small alphabet, one longer text, and every
\* file of up to MaxFileLines lines.
XenoText == <<"x", "e", "n", "o", "b", "i", "o", "l", "o", "g", "y", " ", "r", "e", "s", "e", "a", "r", "c", "h">>
BiologyLine == <<"b", "i", "o", "l", "o", "g", "y">>
BioLogyLine == <<"b", "i", "o", " ", "l", "o", "g", "y">>
TextAlphabet == {"a", "B", " ", "\t"}
MatcherTexts == UNION {[1..n -> TextAlphabet] : n \in 0..MaxTextLen} \cup {XenoText}
MatcherLines ==
  {<<" ", "A", " ", " ", "b", " ">>, <<"B">>, <<" ", "\t">>, BiologyLine, BioLogyLine}
MatcherFiles == UNION {[1..n -> MatcherLines] : n \in 0..MaxFileLines}

\* Before the keyword file is read.
MatcherInit ==
  /\ gen = NewGen("follows", "subject", 1, 0)
  /\ last_resp = NoResponse
  /\ CrawlState(DefaultArgs, "matcher")
  /\ searching = NoSearching
  /\ following = NoFollowing
  /\ deletes = <<>>
  /\ server = BudgetServer
  /\ \E t \in MatcherTexts, f \in MatcherFiles :
       matcher = [pc |-> "start", lines |-> f, text |-> t, keywords |-> <<>>,
                  result |-> FALSE, calls |-> 0]

\* keywords = read_keywords(args.keywords)
MatcherLoad ==
  /\ matcher.pc = "start"
  /\ matcher' = [matcher EXCEPT !.pc = "loaded", !.keywords = read_keywords(matcher.lines)]
  /\ UNCHANGED <<gen, last_resp, args, pc, stats, seed_source, seed_buffer, queue, visited_seeds,
                 seen_candidates, session_followed, added, skipped, source_exhausted,
                 current_seed_batch_idx, depth, follower_pages, followers, reported,
                 fetches, prompts, creates, served, searching, following, deletes,
                 server>>

\* matches_any_keyword(text, keywords), called once and once again.
MatcherCall ==
  /\ matcher.pc \in {"loaded", "called"}
  /\ matcher' = [matcher EXCEPT
                   !.pc = IF matcher.pc = "loaded" THEN "called" ELSE "again",
                   !.result = matches_any_keyword(matcher.text, matcher.keywords),
                   !.calls = @ + 1]
  /\ UNCHANGED <<gen, last_resp, args, pc, stats, seed_source, seed_buffer, queue, visited_seeds,
                 seen_candidates, session_followed, added, skipped, source_exhausted,
                 current_seed_batch_idx, depth, follower_pages, followers, reported,
                 fetches, prompts, creates, served, searching, following, deletes,
                 server>>

MatcherNext == MatcherLoad \/ MatcherCall

MatcherSpec == MatcherInit /\ [][MatcherNext]_vars

\* ------------------------------------------- the crawl on a finite, sound server
\* The crawl against a server whose follows listing ends after MaxSeedBatches
\* batches, whose accounts all come from LiveAccounts and whose listings
\* never fail; the crawl keeps taking steps while it has one to take.
LiveArgSets ==
  {[dry_run |-> FALSE, nodesc |-> FALSE, degreelimit |-> 3, limit |-> 0,
    keywords |-> Keywords]}

LiveInit ==
  /\ gen = NewGen("follows", "subject", 1, 0)
  /\ last_resp = NoResponse
  /\ \E a \in LiveArgSets : CrawlInitOn(a, FiniteServer)

LiveSpec == LiveInit /\ [][Next]_vars /\ WF_vars(Next)

\* --------------------------------------------------- one full neighbor page
\* The crawl with --limit 100 against a scripted server: one matching seed,
\* whose followers page holds as many neighbors as a stats block, all
\* non-matching but one, which is any kind of neighbor at the start or the
\* end of the page.
FullPages ==
  {[i \in 1..STATS_BATCH_N |-> IF i = k THEN x ELSE nMiss] :
     k \in {1, STATS_BATCH_N - 1, STATS_BATCH_N},
     x \in {nB, nFollowed, nMiss, nNoKey}}

FullPageArgSets ==
  [dry_run : BOOLEAN, nodesc : {FALSE}, degreelimit : {1}, limit : {STATS_BATCH_N},
   keywords : {Keywords}]

FullPageInit ==
  /\ gen = NewGen("follows", "subject", 1, 0)
  /\ last_resp = NoResponse
  /\ \E a \in FullPageArgSets, page \in FullPages :
       CrawlInitOn(a, ScriptedServer(<<nA>>, page))

FullPageSpec == FullPageInit /\ [][Next]_vars

\* ------------------------------------------------- two seeds and a candidate
\* The crawl against a scripted server whose follows listing returns one
\* batch of two matching seeds and whose followers listings return a page
\* with a third matching account, a non-matching one, or both.
TwoSeedPages == {<<nS>>, <<nMiss>>, <<nS, nMiss>>, <<nMiss, nS>>}

TwoSeedArgSets ==
  [dry_run : BOOLEAN, nodesc : {FALSE}, degreelimit : {1, 2}, limit : {0, 2},
   keywords : {Keywords}]

TwoSeedInit ==
  /\ gen = NewGen("follows", "subject", 1, 0)
  /\ last_resp = NoResponse
  /\ \E a \in TwoSeedArgSets, page \in TwoSeedPages :
       CrawlInitOn(a, ScriptedServer(<<nA, nB>>, page))

TwoSeedSpec == TwoSeedInit /\ [][Next]_vars

\* ------------------------------------------------------ the Stats object alone
\* The events a Stats object driven on its own is given, and how many of
\* them are not node-observed events.
StatsEvents == {"account_seen", "keyword_miss", "candidate", "followed"}
OtherRecorded(st) ==
  st.cum["keyword_miss"] + st.cum["prompted"] + st.cum["followed_added"]

\* stats = Stats()
StatsInit ==
  /\ gen = NewGen("follows", "subject", 1, 0)
  /\ last_resp = NoResponse
  /\ CrawlState(DefaultArgs, "stats")
  /\ searching = NoSearching
  /\ following = NoFollowing
  /\ deletes = <<>>
  /\ server = BudgetServer
  /\ matcher = NoMatcher

\* One call of a recording method.
StatsCall ==
  /\ pc = "stats"
  /\ \E m \in StatsEvents :
       /\ IF m = "account_seen" THEN stats.cum["followers_iterated"] < MaxObserved
          ELSE OtherRecorded(stats) < MaxOtherEvents
       /\ stats' = stats_call(stats, m)
  /\ UNCHANGED <<gen, last_resp, args, pc, seed_source, seed_buffer, queue, visited_seeds,
                 seen_candidates, session_followed, added, skipped, source_exhausted,
                 current_seed_batch_idx, depth, follower_pages, followers, reported,
                 fetches, prompts, creates, served, searching, following, deletes,
                 server, matcher>>

\* The end of the run: the summary is printed, the Stats object is not
\* touched again.
StatsRunEnd ==
  /\ pc = "stats"
  /\ pc' = "done"
  /\ UNCHANGED <<gen, last_resp, args, stats, seed_source, seed_buffer, queue,
                 visited_seeds, seen_candidates, session_followed, added, skipped,
                 source_exhausted, current_seed_batch_idx, depth, follower_pages,
                 followers, reported, fetches, prompts, creates, served, searching,
                 following, deletes, server, matcher>>

StatsNext == StatsCall \/ StatsRunEnd

StatsSpec == StatsInit /\ [][StatsNext]_vars

\* ------------------------------------------------ claims on the generators
\* C1: one invocation of a paginated generator issues at most max_pages page
\* requests and yields at most max_pages batches, whatever cursors the server
\* returns, and once max_pages requests are made the next call ends it
\* without a request.
C1_PageCeiling ==
  /\ gen.requests <= Max(0, gen.max_pages)
  /\ gen.yields <= Max(0, gen.max_pages)
  /\ (gen.pc \in {"start", "yielded"} /\ gen.requests >= gen.max_pages) =>
       \A resp \in PagResponses :
         /\ GenNext(gen, resp).pc = "done"
         /\ GenNext(gen, resp).requests = gen.requests

\* iter_follows ran into the ceiling: max_pages batches, each answered with a
\* fresh cursor.
C1_Witness ==
  /\ gen.kind = "follows" /\ gen.pc = "done"
  /\ gen.max_pages >= 2 /\ gen.yields = gen.max_pages
  /\ ~Falsy(gen.out_cursor) /\ gen.out_cursor # gen.sent

\* C2: in iter_follows and iter_followers, after a yielded page, the next
\* call ends the generator without a request when the response's cursor was
\* absent or equal to the cursor sent with that request; otherwise a next
\* request carries exactly the cursor of the preceding response.
C2_CursorChain ==
  [][(gen.kind \in {"follows", "followers"} /\ gen.pc = "yielded") =>
       IF Falsy(gen.out_cursor) \/ gen.out_cursor = gen.sent
       THEN gen'.pc = "done" /\ gen'.requests = gen.requests
       ELSE gen'.requests > gen.requests => gen'.sent = gen.out_cursor]_vars

\* The second request carried the first response's cursor, the second
\* response repeated it, and the generator ended below its ceiling.
C2_Witness ==
  /\ gen.kind = "follows" /\ gen.pc = "done"
  /\ gen.max_pages = 3 /\ gen.requests = 2 /\ gen.yields = 2
  /\ gen.sent = "c1" /\ gen.out_cursor = "c1"

\* C3: in iter_search_actors, a response whose cursor equals the cursor sent
\* with its request ends pagination: the next call issues no request.
C3_SearchStallGuard ==
  [][(gen.kind = "search" /\ gen.pc = "yielded"
        /\ ~Falsy(gen.out_cursor) /\ gen.out_cursor = gen.sent) =>
       (gen'.pc = "done" /\ gen'.requests = gen.requests)]_vars

\* C4: a yielded batch is never empty; a response with an empty or missing
\* item list ends the sequence unyielded; the generator ends in error only
\* when its request failed, so every other ending is the same plain end.
C4_NonEmptyBatches ==
  /\ gen.pc = "yielded" => (gen.batch # <<>> /\ gen.batch = BatchOf(last_resp))
  /\ gen.pc = "done" => gen.batch = <<>>
  /\ (gen.requests > 0 /\ last_resp.ok /\ BatchOf(last_resp) = <<>>) =>
       (gen.pc = "done" /\ gen.yields < gen.requests)
  /\ gen.pc = "failed" <=> (gen.requests > 0 /\ ~last_resp.ok)

\* After one yielded page, a response without the list key ended the sequence.
C4_Witness ==
  /\ gen.pc = "done" /\ gen.yields = 1 /\ gen.requests = 2
  /\ last_resp.ok /\ ~last_resp.has_items

\* ------------------------------------------------------ claims on the crawl
\* The Text Matcher's verdict on an account, over the loaded phrases.
BioMatches(obj) == matches_any_keyword(combine_bio_desc(obj), Keywords)

\* No element occurs twice in the sequence.
NoRepeats(seq) == \A i, j \in 1..Len(seq) : seq[i] = seq[j] => i = j

\* The keys of the neighbor-listing requests issued so far.
FetchKeys == [i \in 1..Len(fetches) |-> fetches[i].key]
ReportKeys == [i \in 1..Len(reported) |-> reported[i][1]]

\* The state is at the pop of a frontier entry.
AtPop == pc = "loop" /\ ~IntakeGuard /\ queue # <<>>

\* The state is at the review of the next neighbor of a page.
AtReview == pc = "page" /\ followers # <<>>

\* C5: in one crawl each key is expanded at most once: no key is reported as
\* a seed twice or has its neighbor listing fetched twice; a frontier entry
\* whose key is already in visited_seeds is dropped at the pop with no
\* report and no fetch; visited_seeds only grows.
C5_ExpandOnce ==
  /\ [](NoRepeats(ReportKeys) /\ NoRepeats(FetchKeys))
  /\ [][/\ visited_seeds \subseteq visited_seeds'
        /\ (AtPop /\ key_of(Head(queue).node) \in visited_seeds) =>
             (queue' = Tail(queue) /\ reported' = reported /\ fetches' = fetches
                /\ pc' = "loop" /\ visited_seeds' = visited_seeds)]_vars

\* More entries joined the queue than were reported, and the queue is empty
\* again: an entry with a visited key was dropped at its pop.
C5_Witness ==
  /\ pc = "loop" /\ queue = <<>> /\ Len(reported) >= 1
  /\ stats.cum["seeds_matched"] + stats.cum["enqueued_new_seeds"] > Len(reported)

\* C6: in one crawl each key is shown at the decision prompt at most once;
\* seen_candidates only grows, it holds exactly the keys prompted, and a
\* neighbor whose key is in it is rejected as a dedup skip, with no prompt
\* and no mutation call.
C6_PromptOnce ==
  /\ [](NoRepeats(prompts) /\ seen_candidates = {prompts[i] : i \in 1..Len(prompts)})
  /\ [][/\ seen_candidates \subseteq seen_candidates'
        /\ (AtReview /\ key_of(Head(followers)) \in seen_candidates) =>
             (/\ prompts' = prompts /\ creates' = creates
              /\ stats'.cum["dedup_skip"] = stats.cum["dedup_skip"] + 1
              /\ seen_candidates' = seen_candidates)]_vars

\* Two expanded seeds listed the same key: it was prompted once and skipped
\* as a duplicate the second time.
C6_Witness ==
  /\ Len(fetches) = 2 /\ Len(prompts) = 1 /\ stats.cum["dedup_skip"] >= 1

\* C7: every entry of the frontier queue has 0 <= depth <= max_depth, where
\* max_depth = max(1, degreelimit).
C7_FrontierDepth ==
  \A i \in 1..Len(queue) :
    0 <= queue[i].depth /\ queue[i].depth <= Max(1, args.degreelimit)

\* The queue holds a seed at depth 0 and an accepted candidate at depth 1.
C7_Witness ==
  \E i, j \in 1..Len(queue) : queue[i].depth = 0 /\ queue[j].depth = 1

\* The review step follows the account at the head of the page: its edge
\* creation succeeded, or was simulated in dry mode.
FollowSucceeds ==
  /\ AtReview
  /\ prompts' # prompts
  /\ IF args.dry_run
     THEN ~Falsy(Head(followers).did) /\ Head(followers).did \in session_followed'
     ELSE Len(creates') > Len(creates) /\ creates'[Len(creates')].ok

\* C8 as claimed: a candidate accepted, with its edge created, while an entry
\* of depth max_depth - 1 is expanded becomes a new frontier entry of depth
\* max_depth.
C8_Original ==
  [][(FollowSucceeds /\ depth = Max(1, args.degreelimit) - 1) =>
       (/\ Len(queue') = Len(queue) + 1
        /\ queue'[Len(queue')].depth = Max(1, args.degreelimit))]_vars

\* C8 as amended: such a candidate is not enqueued, so no frontier entry has
\* depth max_depth, and every neighbor-listing fetch is for an entry of
\* depth below max_depth.
C8_DeepestNotEnqueued ==
  /\ [](/\ \A i \in 1..Len(queue) : queue[i].depth < Max(1, args.degreelimit)
        /\ \A i \in 1..Len(fetches) : fetches[i].depth < Max(1, args.degreelimit))
  /\ [][(FollowSucceeds /\ depth = Max(1, args.degreelimit) - 1) =>
          queue' = queue]_vars

\* With max_depth = 2 an entry of depth 1 was expanded and a candidate of
\* its page was followed.
C8_Witness ==
  /\ Max(1, args.degreelimit) = 2 /\ pc = "page" /\ depth = 1
  /\ added = 2 /\ Len(fetches) = 2

\* C9: a followed candidate (edge created, or simulated in dry mode) found at
\* depth d is appended to the frontier as (candidate, d + 1) if and only if
\* d + 1 < max_depth; any other review step leaves the queue as it is.
C9_EnqueueRule ==
  [][AtReview =>
       IF FollowSucceeds /\ depth + 1 < Max(1, args.degreelimit)
       THEN queue' = Append(queue, [node |-> Head(followers), depth |-> depth + 1])
       ELSE queue' = queue]_vars

\* A candidate was followed at depth 0 and stands in the queue at depth 1,
\* and a later candidate's edge creation failed.
C9_Witness ==
  /\ \E i \in 1..Len(queue) : queue[i].depth = 1
  /\ stats.cum["api_error"] >= 1

\* C10: a seed whose bio fails the Text Matcher does not enter the queue at
\* intake, every depth-0 entry of the queue has a matching bio, and no
\* neighbor listing is fetched for a depth-0 seed whose bio does not match.
C10_UnmatchedSeedDiscarded ==
  /\ [](/\ \A i \in 1..Len(queue) : queue[i].depth = 0 => BioMatches(queue[i].node)
        /\ \A i \in 1..Len(fetches) :
             fetches[i].depth = 0 => BioMatches(fetches[i].account))
  /\ [][(pc = "loop" /\ IntakeGuard /\ ~BioMatches(Head(seed_buffer))) =>
          (queue' = queue /\ fetches' = fetches)]_vars

\* A seed with a key and a bio that does not match was taken from the buffer
\* and the crawl ran to its end without a fetch.
C10_Witness ==
  /\ pc = "done" /\ fetches = <<>>
  /\ stats.cum["seeds_seen"] > stats.cum["seeds_matched"]

\* The state is at the intake of the seed at the head of the buffer.
AtIntake == pc = "loop" /\ IntakeGuard

\* C11: a seed with a key that is taken from the seed buffer has its key in
\* visited_seeds right after the intake, whether its bio matches or not, and
\* the intake of a key that an earlier intake has put into the queue changes
\* neither the queue nor the seed counters.
C11_VisitedAtIntake ==
  [][(AtIntake /\ ~Falsy(key_of(Head(seed_buffer)))) =>
       LET k == key_of(Head(seed_buffer))
       IN  /\ k \in visited_seeds'
           /\ (\E i \in 1..Len(queue) :
                 queue[i].depth = 0 /\ key_of(queue[i].node) = k) =>
                (queue' = queue /\ stats' = stats)]_vars

\* The step called refill_seeds and the call reached next(seed_source).
RefillCalled == seed_source' # seed_source

\* C12 as claimed: with fewer than batch_size entries in the queue, an empty
\* seed buffer and a seed source not exhausted, the next step of the loop
\* fetches a seed batch.
C12_Original ==
  [][(pc = "loop" /\ Len(queue) < batch_size /\ seed_buffer = <<>>
        /\ ~source_exhausted) => RefillCalled]_vars

\* C12 as amended: with an empty seed buffer and a seed source not
\* exhausted, the loop calls refill_seeds before anything else exactly when
\* the queue is empty; with an entry in the queue it pops that entry without
\* a seed fetch, however far the queue is below batch_size.
C12_RefillWhenQueueEmpty ==
  [][(pc = "loop" /\ seed_buffer = <<>> /\ ~source_exhausted) =>
       IF queue = <<>>
       THEN RefillCalled /\ queue' = queue /\ fetches' = fetches
       ELSE ~RefillCalled /\ queue' = Tail(queue)]_vars

\* With batch_size 3 the first seed batch left one entry in the queue; it was
\* popped and its page is under review, with no second seed batch fetched.
C12_Witness ==
  /\ batch_size = 3 /\ pc = "page" /\ seed_buffer = <<>> /\ ~source_exhausted
  /\ current_seed_batch_idx = 1 /\ Len(fetches) = 1 /\ queue = <<>>

\* C13: the queue changes only by losing its first entry or by gaining a
\* last one, and the entry a pop reports and expands is the first one: the
\* entries leave in the order in which they were appended.
C13_Fifo ==
  [][/\ \/ queue' = queue
        \/ queue # <<>> /\ queue' = Tail(queue)
        \/ Len(queue') = Len(queue) + 1 /\ SubSeq(queue', 1, Len(queue)) = queue
     /\ AtPop =>
          /\ queue' = Tail(queue)
          /\ reported' # reported =>
               reported'[Len(reported')] = <<key_of(Head(queue).node), Head(queue).depth>>
          /\ fetches' # fetches =>
               fetches'[Len(fetches')].account = Head(queue).node]_vars

\* Two seeds were queued, the first was popped and a candidate of its page
\* was appended behind the second; the second was popped next, and the
\* candidate is what is left.
C13_Witness ==
  /\ pc = "loop" /\ Len(queue) = 1 /\ queue[1].depth = 1
  /\ stats.cum["seeds_matched"] = 2 /\ Len(reported) = 1

\* The entry is one the pop expands: its key is new, its bio matches and its
\* depth is below max_depth.
Expandable(e) ==
  /\ ~Falsy(key_of(e.node)) /\ key_of(e.node) \notin visited_seeds
  /\ BioMatches(e.node)
  /\ e.depth < Max(1, args.degreelimit)

\* C14: the pop of an entry that is expanded issues exactly one
\* neighbor-listing request, for that entry; no other pop and no step of the
\* page review issues one, so a second page is never requested whatever
\* cursor came with the first.
C14_SinglePage ==
  /\ [](follower_pages.requests <= 1)
  /\ [][/\ (AtPop /\ Expandable(Head(queue))) =>
             fetches' = Append(fetches, [actor |-> handle_or_did(Head(queue).node),
                                         key |-> key_of(Head(queue).node),
                                         depth |-> Head(queue).depth,
                                         account |-> Head(queue).node])
        /\ (AtPop /\ ~Expandable(Head(queue))) => fetches' = fetches
        /\ pc = "page" => fetches' = fetches
        /\ (pc = "page" /\ followers = <<>>) => pc' = "loop"]_vars

\* The one page of a seed came with a cursor for a next page, and its
\* review is over.
C14_Witness ==
  /\ pc = "page" /\ followers = <<>>
  /\ follower_pages.out_cursor = "c1" /\ follower_pages.requests = 1

\* C15: the neighbor under review reaches the prompt, and joins
\* seen_candidates, exactly if it has a key that is not in seen_candidates,
\* is not the viewer's did and is not in session_followed, the server does
\* not report it as followed, and its bio matches; otherwise there is no
\* prompt and no mutation call, and added, skipped, the queue,
\* session_followed and seen_candidates stay as they are.
C15_CandidateFilter ==
  [][AtReview =>
       LET f == Head(followers)
           k == key_of(f)
           survives == /\ ~Falsy(k)
                       /\ k \notin seen_candidates
                       /\ k # ViewerDid
                       /\ Falsy(f.following) /\ k \notin session_followed
                       /\ BioMatches(f)
       IN  IF survives
           THEN prompts' = Append(prompts, k) /\ seen_candidates' = seen_candidates \cup {k}
           ELSE /\ prompts' = prompts /\ creates' = creates
                /\ added' = added /\ skipped' = skipped /\ queue' = queue
                /\ session_followed' = session_followed
                /\ seen_candidates' = seen_candidates]_vars

\* On one page the viewer's own account was rejected and another neighbor
\* was prompted.
C15_Witness ==
  /\ stats.cum["self_skip"] >= 1 /\ stats.cum["prompted"] >= 1
  /\ Len(fetches) = 1

\* The bookkeeping a review leaves behind: everything but the record of the
\* edge-creation calls.
Bookkeeping(r) ==
  [queue |-> r.queue, seen_candidates |-> r.seen_candidates,
   session_followed |-> r.session_followed, added |-> r.added,
   skipped |-> r.skipped, stats |-> r.stats, prompts |-> r.prompts]

\* The bookkeeping of the state after the step.
BookkeepingNext ==
  [queue |-> queue', seen_candidates |-> seen_candidates',
   session_followed |-> session_followed', added |-> added',
   skipped |-> skipped', stats |-> stats', prompts |-> prompts']

\* C17: from every bookkeeping state a crawl reaches, the review of a
\* neighbor under the same answer leaves the same queue, seen_candidates,
\* session_followed, added, skipped and stats counters in dry-run mode as in
\* a non-dry crawl whose edge creation succeeds, and every review step a
\* crawl takes in one of the two modes is the step of the other mode; no
\* other step reads the mode, so the two crawls agree step for step.
C17_DryRunSameBookkeeping ==
  /\ [](AtReview =>
          \A choice \in Choices :
            Bookkeeping(review_in(TRUE, Head(followers), choice, TRUE))
              = Bookkeeping(review_in(FALSE, Head(followers), choice, TRUE)))
  /\ [][(AtReview /\ (args.dry_run \/ creates' = creates
                        \/ creates'[Len(creates')].ok)) =>
          /\ \E choice \in Choices :
               BookkeepingNext =
                 Bookkeeping(review_in(~args.dry_run, Head(followers), choice, TRUE))
          /\ visited_seeds' = visited_seeds]_vars

\* A dry-run crawl followed a candidate and enqueued it, with no
\* edge-creation call.
C17_Witness ==
  /\ args.dry_run /\ creates = <<>>
  /\ stats.cum["followed_added"] >= 1 /\ stats.cum["enqueued_new_seeds"] >= 1

\* C18: the main loop ends normally only from a state whose queue and seed
\* buffer are empty and leaves them empty with the seed source exhausted;
\* and at the loop with an empty queue, an empty buffer and an exhausted
\* source the only step is that end.
C18_ExitWhenNoWork ==
  [][/\ (pc = "loop" /\ pc' = "done") =>
          /\ queue = <<>> /\ seed_buffer = <<>>
          /\ queue' = <<>> /\ seed_buffer' = <<>> /\ source_exhausted'
     /\ (pc = "loop" /\ queue = <<>> /\ seed_buffer = <<>> /\ source_exhausted) =>
          pc' = "done"]_vars

\* A crawl that expanded a seed ran out of work and ended.
C18_Witness ==
  /\ pc = "done" /\ source_exhausted /\ queue = <<>> /\ seed_buffer = <<>>
  /\ Len(fetches) >= 1 /\ current_seed_batch_idx >= 2

\* The edge-creation calls that failed.
FailedCreates == {i \in 1..Len(creates) : ~creates[i].ok}

\* C19: a review step whose edge creation fails raises api_error and skipped
\* by one, leaves added and the queue as they are, and goes on with the rest
\* of the same page; skipped, the total the summary prints, always counts
\* the declined, the no-did and the failed candidates, and api_error counts
\* the failed calls.
C19_CreateFailureConfined ==
  /\ [](/\ skipped = stats.cum["user_declined"] + stats.cum["no_did_skip"]
                       + stats.cum["api_error"]
        /\ stats.cum["api_error"] = Cardinality(FailedCreates))
  /\ [][(AtReview /\ Len(creates') > Len(creates) /\ ~creates'[Len(creates')].ok) =>
          /\ stats'.cum["api_error"] = stats.cum["api_error"] + 1
          /\ skipped' = skipped + 1
          /\ added' = added
          /\ queue' = queue
          /\ pc' = "page" /\ followers' = Tail(followers)]_vars

\* The first candidate's edge creation failed, the next candidate of the
\* crawl was followed, and the crawl ran to its end.
C19_Witness ==
  /\ pc = "done" /\ Len(creates) = 2
  /\ ~creates[1].ok /\ creates[2].ok /\ skipped = 1 /\ added = 1

\* C20: the crawl is aborted exactly when a request of the seed source or of
\* a neighbor listing has failed, and an aborted crawl takes no further
\* step: no prompt, no edge creation, no fetch and no repeated request.
C20_FetchFailureAborts ==
  /\ []((seed_source.pc = "failed" \/ follower_pages.pc = "failed") <=> pc = "aborted")
  /\ [][pc = "aborted" =>
          /\ pc' = "aborted"
          /\ prompts' = prompts /\ creates' = creates /\ fetches' = fetches
          /\ seed_source' = seed_source /\ follower_pages' = follower_pages]_vars

\* After a candidate was prompted and enqueued, the neighbor-listing request
\* of the second expanded entry failed.
C20_Witness ==
  /\ pc = "aborted" /\ follower_pages.pc = "failed"
  /\ Len(fetches) = 2 /\ prompts # <<>>

\* ------------------------------------------------- claims on the three modes
\* C16: in dry-run mode no edge-creation call (degreesearch, searching) and
\* no edge-deletion call (following) is ever made.
C16_DryRunNoMutation ==
  args.dry_run => (creates = <<>> /\ deletes = <<>>)

\* A dry-run review of the follows went through an automatic unfollow of an
\* account without text and through an unfollow the operator asked for.
C16_Witness ==
  /\ args.dry_run /\ args.nodesc
  /\ following.empties >= 1 /\ following.would_unfollow >= 2

\* ------------------------------------------------- claims on the Stats object
\* How often method m records counter k.
Recorded(m, k) == IF k \in MethodCounters(m) THEN 1 ELSE 0

\* C21: from every state of a Stats object, every recording method raises the
\* cumulative counter of each name it records by exactly one and no other
\* cumulative counter, and does the same to the block counters (as the block
\* stands in the snapshot, when the call emits one); no step lowers a
\* cumulative counter.
C21_RecordFrame ==
  /\ [](\A m \in StatsMethods :
          LET st2 == stats_call(stats, m)
              blk == IF st2.stderr = stats.stderr THEN st2.block
                     ELSE st2.stderr[Len(st2.stderr)].block
          IN  \A k \in CounterNames :
                /\ st2.cum[k] = stats.cum[k] + Recorded(m, k)
                /\ blk[k] = stats.block[k] + Recorded(m, k))
  /\ [][\A k \in CounterNames : stats'.cum[k] >= stats.cum[k]]_vars

\* A snapshot was emitted, and the counts recorded before it are still in
\* the cumulative counters.
C21_Witness ==
  /\ Len(stats.stderr) >= 1 /\ stats.block["keyword_miss"] = 0
  /\ stats.cum["keyword_miss"] = 2 /\ stats.cum["followers_iterated"] > 100

\* C22: a snapshot is emitted exactly when the block value of
\* followers_iterated reaches 100, it shows that block of 100, and after it
\* every block counter is zero and the cumulative counters are those of the
\* snapshot; after n node-observed events there are floor(n/100) snapshots and
\* n mod 100 observations in the block, and the end of the run emits nothing:
\* after 250 events, 2 snapshots and 50 in the block.
C22_SnapshotEvery100 ==
  /\ [](/\ Len(stats.stderr) = stats.cum["followers_iterated"] \div 100
        /\ stats.block["followers_iterated"] = stats.cum["followers_iterated"] % 100
        /\ \A i \in 1..Len(stats.stderr) :
             /\ stats.stderr[i].block["followers_iterated"] = 100
             /\ stats.stderr[i].cum["followers_iterated"] = 100 * i
        /\ (pc = "done" /\ stats.cum["followers_iterated"] = 250) =>
             (Len(stats.stderr) = 2 /\ stats.block["followers_iterated"] = 50))
  /\ [][((Len(stats'.stderr) > Len(stats.stderr)) =>
            (/\ stats.block["followers_iterated"] = 99
             /\ stats'.block = EmptyCounter
             /\ stats'.cum = stats'.stderr[Len(stats'.stderr)].cum))
        /\ ((pc' = "done") => (stats' = stats))]_vars

\* The run ended after 250 node-observed events.
C22_Witness ==
  /\ pc = "done" /\ stats.cum["followers_iterated"] = 250
  /\ Len(stats.stderr) = 2 /\ stats.block["followers_iterated"] = 50

\* The sum of the block counters of name k over the snapshots.
RECURSIVE SumBlocks(_, _)
SumBlocks(snaps, k) ==
  IF snaps = <<>> THEN 0 ELSE Head(snaps).block[k] + SumBlocks(Tail(snaps), k)

\* C23: for every counter name k, cumulative[k] equals the sum of block[k]
\* over the snapshots emitted so far plus the current block[k].
C23_CumulativeIsSum ==
  \A k \in CounterNames :
    /\ stats.cum[k] = SumBlocks(stats.stderr, k) + stats.block[k]
    /\ stats.cum[k] >= SumBlocks(stats.stderr, k)

\* Two snapshots were emitted, with a count of another name in each, and the
\* current block holds observations.
C23_Witness ==
  /\ Len(stats.stderr) = 2
  /\ stats.stderr[1].block["keyword_miss"] = 1 /\ stats.stderr[2].block["prompted"] = 1
  /\ stats.block["followers_iterated"] > 0

\* ------------------------------------------------------- claim on the scenario
\* C24: with one batch of three seeds of which only the second matches,
\* max_depth = 1 and a neighbor page of two matching, one non-matching and one
\* already-followed neighbor, the crawl never issues more than one
\* neighbor-listing fetch nor shows more than two candidates, and it ends with
\* exactly one fetch and two candidates shown; when both were declined it
\* ends with added = 0, skipped = 2 and no creation call.
C24_Scenario ==
  /\ Len(fetches) <= 1
  /\ Len(prompts) <= 2
  /\ pc = "done" =>
       /\ Len(fetches) = 1
       /\ Len(prompts) = 2
       /\ stats.cum["user_declined"] = 2 =>
            (added = 0 /\ skipped = 2 /\ creates = <<>>)

\* The scenario ran to its end with both candidates declined.
C24_Witness ==
  /\ server.kind = "scripted" /\ pc = "done" /\ max_depth = 1
  /\ Len(fetches) = 1 /\ Len(prompts) = 2
  /\ stats.cum["user_declined"] = 2 /\ added = 0 /\ skipped = 2
  /\ stats.cum["seeds_seen"] = 3 /\ stats.cum["seeds_matched"] = 1
  /\ stats.cum["already_following_skip"] = 1 /\ stats.cum["keyword_miss"] = 1

\* --------------------------------------------------- claims on the text matcher
\* The text lower-cased, with every maximal run of whitespace replaced by one
\* space.
RECURSIVE Collapse(_)
Collapse(s) ==
  IF s = <<>> THEN <<>>
  ELSE IF Head(s) \in WhiteSpace
       THEN IF Len(s) > 1 /\ s[2] \in WhiteSpace THEN Collapse(Tail(s))
            ELSE <<" ">> \o Collapse(Tail(s))
       ELSE <<LowerChar(Head(s))>> \o Collapse(Tail(s))

\* p occurs in t as a contiguous substring.
OccursIn(p, t) == \E i, j \in 0..Len(t) : i <= j /\ SubSeq(t, i + 1, j) = p

\* C25: the result of matches_any_keyword on a text and the loaded phrases is
\* true exactly when some phrase occurs as a contiguous substring of the
\* lower-cased, whitespace-collapsed text; it is false when the text is empty
\* or no phrase was loaded; "xenobiology research" matches the phrase
\* "biology" and does not match the phrase "bio logy".
C25_SubstringMatch ==
  matcher.pc = "called" =>
    /\ matcher.result = (\E i \in 1..Len(matcher.keywords) :
                           OccursIn(matcher.keywords[i], Collapse(matcher.text)))
    /\ (matcher.text = <<>> \/ matcher.keywords = <<>>) => ~matcher.result
    /\ (matcher.text = XenoText /\ matcher.lines = <<BiologyLine>>) => matcher.result
    /\ (matcher.text = XenoText /\ matcher.lines = <<BioLogyLine>>) => ~matcher.result

\* "xenobiology research" was matched against the phrase "biology".
C25_Witness ==
  /\ matcher.pc = "called" /\ matcher.text = XenoText
  /\ matcher.keywords = <<BiologyLine>> /\ matcher.result

\* Rewritings of a text that change only letter case, the length of its
\* whitespace runs, or the whitespace around it.
UpperChar(c) ==
  CASE c = "a" -> "A"
    [] c = "b" -> "B"
    [] c = "x" -> "X"
    [] OTHER -> c
Upper(s) == [i \in 1..Len(s) |-> UpperChar(s[i])]
RECURSIVE WidenWs(_)
WidenWs(s) ==
  IF s = <<>> THEN <<>>
  ELSE IF Head(s) \in WhiteSpace THEN <<Head(s), "\t">> \o WidenWs(Tail(s))
       ELSE <<Head(s)>> \o WidenWs(Tail(s))
Pad(s) == <<" ">> \o s \o <<"\n">>
TextVariants(s) ==
  {s, Upper(s), Lower(s), WidenWs(s), Upper(WidenWs(s))}
    \cup (IF s = <<>> THEN {} ELSE {Pad(s)})
FileVariants(f) ==
  {f, [i \in 1..Len(f) |-> Upper(f[i])], [i \in 1..Len(f) |-> WidenWs(f[i])],
   [i \in 1..Len(f) |-> Pad(f[i])]}

\* C26: a second call with the same text and phrases returns what the first
\* returned and leaves text and phrases as they were, and every text and
\* every keyword file that differ from the given ones only in letter case and
\* in the length or position of whitespace runs give the same result.
C26_NormalizedInput ==
  /\ [](matcher.pc \in {"called", "again"} =>
          \A t \in TextVariants(matcher.text), f \in FileVariants(matcher.lines) :
            matches_any_keyword(t, read_keywords(f)) = matcher.result)
  /\ [][matcher.pc = "called" =>
          /\ matcher'.result = matcher.result
          /\ matcher'.text = matcher.text
          /\ matcher'.keywords = matcher.keywords]_vars

\* A text in mixed case with a tab in it matched a two-word phrase, called
\* twice.
C26_Witness ==
  /\ matcher.pc = "again" /\ matcher.calls = 2 /\ matcher.result
  /\ matcher.text = <<"a", "\t", "B">> /\ matcher.keywords = <<<<"a", " ", "b">>>>

\* ---------------------------------------------------- claims on mode_following
\* The URI text starts with "at://" and has at least five parts between
\* its '/' characters, that is, at least four '/'.
WellFormedUri(u) ==
  LET t == UriText(u)
  IN  /\ Len(t) >= 5
      /\ t[1] = "a" /\ t[2] = "t" /\ t[3] = ":" /\ t[4] = "/" /\ t[5] = "/"
      /\ Cardinality({i \in 1..Len(t) : t[i] = "/"}) >= 4

\* A review step in which delete_follow_record raised before its request.
DeleteRejected ==
  /\ Len(deletes') = Len(deletes) + 1
  /\ ~deletes'[Len(deletes')].requested

\* C27: delete_follow_record sends its request exactly when the URI starts
\* with "at://" and has at least five '/'-separated parts, and otherwise
\* fails without a request; in mode_following a delete rejected this way
\* ends the review of that account only: the rest of the batch stays to be
\* reviewed, the mode keeps running and no counter is lost.
C27_MalformedUriRejected ==
  /\ [](\A i \in 1..Len(deletes) :
          /\ deletes[i].requested <=> WellFormedUri(deletes[i].uri)
          /\ ~deletes[i].requested => ~deletes[i].ok)
  /\ [][DeleteRejected =>
          /\ following'.pc = "batches"
          /\ following'.follows = Tail(following.follows)
          /\ following'.follows_pages = following.follows_pages
          /\ following'.kept = following.kept
          /\ following'.reviewed_no_match + following'.empties
               = following.reviewed_no_match + following.empties + 1]_vars

\* A delete was rejected for its URI, and in a later batch another delete
\* went through.
C27_Witness ==
  /\ Len(deletes) = 2 /\ following.batches = 2
  /\ ~deletes[1].requested /\ deletes[1].uri = ShortUri
  /\ deletes[2].requested /\ deletes[2].ok

\* The account under review has a non-empty text in which a keyword of the
\* run occurs.
KeptCase ==
  /\ following.pc = "batches"
  /\ following.follows # <<>>
  /\ combine_bio_desc(Head(following.follows)) # <<>>
  /\ \E i \in 1..Len(args.keywords) :
       OccursIn(args.keywords[i], Collapse(combine_bio_desc(Head(following.follows))))

\* C28: in mode_following the review of an account whose non-empty text
\* matches a keyword shows no prompt, calls no deletion and counts the
\* account as kept, with and without --nodesc and --dry-run.
C28_MatchIsKept ==
  [][KeptCase =>
       /\ prompts' = prompts
       /\ deletes' = deletes
       /\ following'.would_unfollow = following.would_unfollow
       /\ following'.kept = following.kept + 1
       /\ following'.follows = Tail(following.follows)]_vars

\* Under --nodesc an account was kept after another one was prompted for
\* and deleted.
C28_Witness ==
  /\ args.nodesc /\ following.kept = 1 /\ following.follows = <<>>
  /\ Len(prompts) = 1 /\ Len(deletes) = 1 /\ deletes[1].ok

\* ----------------------------------------------------- claims on the seed buffer
\* a is what is left of b after some of its first items were taken.
IsSuffix(a, b) == Len(a) <= Len(b) /\ a = SubSeq(b, Len(b) - Len(a) + 1, Len(b))

\* C29: refill_seeds asks the seed source for a batch only when the seed
\* buffer is empty, and in every state the seed buffer holds only items of
\* the batch fetched last, in their order: it is a suffix of that batch.
C29_BufferWithinOneBatch ==
  /\ [](IsSuffix(seed_buffer, seed_source.batch))
  /\ [][RefillCalled => seed_buffer = <<>>]_vars

\* The second batch was fetched and part of it has left the buffer.
C29_Witness ==
  /\ current_seed_batch_idx = 2 /\ Len(seed_source.batch) = 2
  /\ Len(seed_buffer) = 1 /\ queue # <<>>

\* ------------------------------------------------------- claim on termination
\* The keys of the accounts the finite server knows.
LiveKeys == {key_of(a) : a \in LiveAccounts}

\* A measure of the work the crawl has left: the keys not yet shown as
\* candidates, the requests the seed source can still make, the seeds in the
\* buffer, the entries of the queue, the neighbors of the page under review,
\* and the position in the loop, weighted so that a step that adds to one of
\* them takes more from another.
QueueWeight == MaxPageLen + 3
BufferWeight == QueueWeight + 1
RefillWeight == MaxPageLen * BufferWeight + 2
SeedBudget ==
  IF source_exhausted THEN 0 ELSE MaxSeedBatches + 2 - seed_source.requests
PcWeight ==
  CASE pc = "start" -> 2
    [] pc = "loop"  -> 1
    [] pc = "page"  -> 2
    [] OTHER        -> 0
WorkLeft ==
  QueueWeight * Cardinality(LiveKeys \ seen_candidates)
    + RefillWeight * SeedBudget
    + BufferWeight * Len(seed_buffer)
    + QueueWeight * Len(queue)
    + Len(followers)
    + PcWeight

\* The guard of some action of the crawl holds.
CanStep ==
  \/ pc = "start" /\ (args.keywords = <<>> \/ SeedResponses # {})
  \/ pc = "loop" /\ IntakeGuard
  \/ pc = "loop" /\ ~IntakeGuard /\ not_queue /\ SeedResponses # {}
  \/ pc = "loop" /\ ~IntakeGuard /\ ~not_queue /\ FollowerResponses # {}
  \/ pc = "page" /\ followers # <<>>
  \/ pc = "page" /\ followers = <<>> /\ NextPageResponses # {}

\* C30: against a seed source of finitely many batches, accounts of finitely
\* many keys and listings that never fail, whatever the operator answers and
\* whether follow creations succeed or not, the crawl halts: it never aborts,
\* it has a step to take until it is done, and every step lowers a measure
\* that is never negative; and it never issues more neighbor-listing fetches
\* than there are keys.
C30_Terminates ==
  /\ [](/\ WorkLeft >= 0
        /\ pc # "aborted"
        /\ pc # "done" => CanStep
        /\ Len(fetches) <= Cardinality(LiveKeys))
  /\ [][WorkLeft' < WorkLeft]_vars

\* The crawl halted after two seed batches and one fetch for every key.
C30_Witness ==
  /\ server.kind = "finite" /\ pc = "done" /\ current_seed_batch_idx = 2
  /\ Len(fetches) = Cardinality(LiveKeys) /\ FailedCreates # {}

\* ------------------------------------------------- claims on the crawl's books
\* C31: after every reviewed neighbor and at the end of the crawl, added +
\* skipped is the number of candidates prompted, which is the size of
\* seen_candidates and the cumulative prompted counter; added is the
\* cumulative followed_added, and skipped is the sum of the cumulative
\* user_declined, no_did_skip and api_error.
C31_CountersAgree ==
  /\ added + skipped = Len(prompts)
  /\ Len(prompts) = Cardinality(seen_candidates)
  /\ Len(prompts) = stats.cum["prompted"]
  /\ added = stats.cum["followed_added"]
  /\ skipped = stats.cum["user_declined"] + stats.cum["no_did_skip"]
                 + stats.cum["api_error"]

\* The crawl ended after one follow and one candidate without a did.
C31_Witness ==
  /\ pc = "done" /\ added = 1 /\ skipped = 1
  /\ stats.cum["no_did_skip"] = 1 /\ Len(prompts) = 2

\* C32: every did in session_followed is one whose follow record was created
\* earlier in the crawl, or would have been in dry-run mode; a did whose
\* creation failed is not in session_followed.
C32_SessionFollowedCreated ==
  /\ \A d \in session_followed :
       args.dry_run \/ \E i \in 1..Len(creates) : creates[i].subject = d /\ creates[i].ok
  /\ \A i \in FailedCreates : creates[i].subject \notin session_followed

\* The dids create_follow_record was called for, in call order.
CreateSubjects == [i \in 1..Len(creates) |-> creates[i].subject]

\* C33: in one crawl create_follow_record is called at most once for a did,
\* never for the viewer's own did, and never for a neighbor whose record on
\* the page under review carries the server's follow URI.
C33_CreateOncePerTarget ==
  /\ [](NoRepeats(CreateSubjects) /\ \A i \in 1..Len(creates) : creates[i].subject # ViewerDid)
  /\ [][Len(creates') > Len(creates) =>
          /\ pc = "page" /\ followers # <<>>
          /\ creates'[Len(creates')].subject = Head(followers).did
          /\ Falsy(Head(followers).following)
          /\ Head(followers).did # ViewerDid
          /\ \A i \in 1..Len(creates) : creates[i].subject # Head(followers).did]_vars

\* A neighbor listed twice on the page was followed once and skipped as a
\* duplicate the second time.
C33_Witness ==
  /\ Len(creates) = 1 /\ creates[1].ok /\ stats.cum["dedup_skip"] = 1
  /\ followers = <<>> /\ pc = "page"

\* In the counters d every observed neighbor has exactly one outcome.
Accounted(d) ==
  d["followers_iterated"] =
    d["keyword_miss"] + d["already_following_skip"] + d["dedup_skip"]
      + d["self_skip"] + d["no_key_skip"] + d["prompted"]

\* C34: in every emitted snapshot the block's followers_iterated is the sum
\* of the block's keyword_miss, already_following_skip, dedup_skip, self_skip,
\* no_key_skip and prompted, and so is the cumulative followers_iterated of
\* the cumulative counters written with it.
C34_SnapshotAccounted ==
  \A i \in 1..Len(stats.stderr) :
    Accounted(stats.stderr[i].block) /\ Accounted(stats.stderr[i].cum)

\* C35: the frontier entries are expanded in non-decreasing depth order:
\* no entry is reported at a depth below that of an entry reported before it.
C35_LevelOrder ==
  \A i, j \in 1..Len(reported) : i < j => reported[i][2] <= reported[j][2]

\* ----------------------------------------------------- claim on mode_searching
\* The actor under review in mode_searching was returned for a keyword its
\* text contains, is not followed according to the page or to this session,
\* and has not been prompted for before.
SearchHit ==
  /\ searching.pc = "pages"
  /\ searching.page # <<>>
  /\ LET a == Head(searching.page)
         key == OrElse(a.did, a.handle)
     IN  /\ ~Falsy(key)
         /\ Contains(Lower(combine_bio_desc(a)), args.keywords[searching.kw])
         /\ Falsy(a.following)
         /\ key \notin searching.session_followed
         /\ \A i \in 1..Len(prompts) : prompts[i] # key

\* C36: in mode_searching every actor returned for a keyword its text
\* contains, who is not followed and has not been prompted for earlier in the
\* run, is prompted for, also when it was returned before under a keyword its
\* text does not contain.
C36_SearchHitPrompted ==
  [][SearchHit =>
       prompts' = Append(prompts, OrElse(Head(searching.page).did,
                                         Head(searching.page).handle))]_vars

==========================================================================
